---- MODULE Spec2Model ----
(***************************************************************************)
(* PBIP-Factory: the template materialization engine                       *)
(* (src/src/pbi_automation/core/processor.py, utils/tmdl_parser.py,        *)
(* models/data.py, cli.py).                                                *)
(*                                                                         *)
(* Text is modelled character by character: a Python str is a sequence of  *)
(* one-character strings, so that str.replace and the regular expressions  *)
(* of the code act on the model's files the way they act on real files.    *)
(***************************************************************************)
EXTENDS Integers, Sequences, FiniteSets, TLC

VARIABLES
    template,                \* the template directory (read by copytree)
    template_path,           \* where the template directory lies: the folder
                             \* name that reaches it from the output
                             \* directory, <<>> when no row's name does
    total_rows,              \* process_data: len(data)
    out,                     \* the output directory: folder name -> folder
    row_index,               \* process_data: enumerate(data, start=1)
    pc,                      \* position inside process_data / process_row
    num_successful_projects, \* process_data: the success counter
    cur,                     \* the row in progress (or just finished): the
                             \* locals of process_row and what its steps did
    hist,                    \* what happened so far in the batch
    snap,                    \* row -> what its first undisturbed run left
    u                        \* harness of the rewriter/locator specifications

vars == <<template, template_path, total_rows, out, row_index, pc, num_successful_projects,
          cur, hist, snap, u>>

batchVars == <<template, template_path, total_rows, out, row_index, pc,
               num_successful_projects, cur, hist, snap>>

(***************************************************************************)
(* Bounds of the model                                                     *)
(***************************************************************************)
\* the longest batch
MaxRows == 3

\* the most file operations that fail in one batch
MaxFaults == 1

\* the longest expression list of a generated model.bim
MaxExprs == 2

\* the longest parameter value written by the single-file rewriter
MaxValLen == 2

\* table files of a model handed to the multi-file locator
MaxTables == 2

\* data lines of a CSV file, and fields of one line
MaxCsvRows == 2

MaxCsvFields == 3

\* items of the parameter_updates handed to update_parameters
MaxUpdates == 2

(***************************************************************************)
(* Python str primitives                                                   *)
(***************************************************************************)
Q == "\""
BS == "\\"
NL == "\n"
TAB == "\t"
SP == " "

\* Python None (a CSV row shorter than the header yields None values)
NoneVal == <<"<None>">>

\* str(x) as the f-strings apply it
PyStr(v) == IF v = NoneVal THEN <<"N","o","n","e">> ELSE v

\* s[i:].startswith(p), i counted from 1
StartsAt(s, i, p) ==
    /\ i >= 1
    /\ i + Len(p) - 1 <= Len(s)
    /\ \A k \in 1..Len(p) : s[i + k - 1] = p[k]

\* p in s
Contains(s, p) == \E i \in 1..(Len(s) + 1) : StartsAt(s, i, p)

\* the least element of a non-empty set of positions
MinPos(S) == CHOOSE x \in S : \A y \in S : x <= y

\* s.find(p, i-1) + 1: the least position >= i where p occurs, 0 if none
FindFrom(s, p, i) ==
    LET hits == {j \in i..(Len(s) - Len(p) + 1) : StartsAt(s, j, p)}
    IN  IF hits = {} THEN 0 ELSE MinPos(hits)

RECURSIVE Flatten(_, _, _)
\* ''.join(pieces[lo..hi])
Flatten(pieces, lo, hi) ==
    IF lo > hi THEN <<>>
    ELSE IF lo = hi THEN pieces[lo]
    ELSE LET mid == (lo + hi) \div 2
         IN  Flatten(pieces, lo, mid) \o Flatten(pieces, mid + 1, hi)

RECURSIVE ReplaceFrom(_, _, _, _)
\* one occurrence after the other, each search starting behind the last one
ReplaceFrom(s, old, new, i) ==
    LET j == FindFrom(s, old, i)
    IN  IF j = 0 THEN SubSeq(s, i, Len(s))
        ELSE SubSeq(s, i, j - 1) \o new \o ReplaceFrom(s, old, new, j + Len(old))

\* str.replace(old, new): every non-overlapping occurrence, left to right
\* (an empty old matches before every character and at the end)
Replace(s, old, new) ==
    IF old = <<>>
    THEN Flatten([i \in 1..Len(s) |-> new \o <<s[i]>>], 1, Len(s)) \o new
    ELSE ReplaceFrom(s, old, new, 1)

(***************************************************************************)
(* Character classes of Python's re module                                 *)
(***************************************************************************)
SpaceChars == {SP, TAB, NL, "\r", "\f"}

WordChars ==
    {"a","b","c","d","e","f","g","h","i","j","k","l","m","n","o","p","q","r",
     "s","t","u","v","w","x","y","z","A","B","C","D","E","F","G","H","I","J",
     "K","L","M","N","O","P","Q","R","S","T","U","V","W","X","Y","Z","0","1",
     "2","3","4","5","6","7","8","9","_"}

IsSpace(s, i) == i >= 1 /\ i <= Len(s) /\ s[i] \in SpaceChars

IsWord(s, i) == i >= 1 /\ i <= Len(s) /\ s[i] \in WordChars

\* \s* from position i: the first position that holds no whitespace
SkipSpaces(s, i) ==
    IF ~IsSpace(s, i) THEN i
    ELSE MinPos({j \in i..(Len(s) + 1) : ~IsSpace(s, j)})

\* \w* from position i
SkipWord(s, i) ==
    IF ~IsWord(s, i) THEN i
    ELSE MinPos({j \in i..(Len(s) + 1) : ~IsWord(s, j)})

\* the least position >= i that holds c, 0 if none
NextCharFrom(s, c, i) ==
    LET hits == {j \in i..Len(s) : j >= 1 /\ s[j] = c}
    IN  IF hits = {} THEN 0 ELSE MinPos(hits)

(***************************************************************************)
(* Row records: an ordered mapping field name -> value (a Python dict),    *)
(* modelled as a sequence of <<key, value>> pairs with distinct keys.      *)
(***************************************************************************)
RowKeys(row) == {row[i][1] : i \in 1..Len(row)}

RowHas(row, k) == k \in RowKeys(row)

RowGet(row, k) == row[CHOOSE i \in 1..Len(row) : row[i][1] = k][2]

(***************************************************************************)
(* JSON text of a str, as json.dump writes it and json.load reads it       *)
(***************************************************************************)
JsonEscapeChar(c) ==
    CASE c = Q   -> <<BS, Q>>
      [] c = BS  -> <<BS, BS>>
      [] c = NL  -> <<BS, "n">>
      [] c = TAB -> <<BS, "t">>
      [] OTHER   -> <<c>>

\* the text json.dump writes between the quotes of a string
JsonEscape(s) == Flatten([i \in 1..Len(s) |-> JsonEscapeChar(s[i])], 1, Len(s))

\* position i starts an escape: a backslash preceded by an even number of
\* backslashes
JsonEscapeStart(t, i) ==
    /\ i >= 1 /\ i <= Len(t) /\ t[i] = BS
    /\ LET others == {j \in 1..(i - 1) : t[j] # BS}
           lastOther == IF others = {} THEN 0
                        ELSE CHOOSE x \in others : \A y \in others : y <= x
       IN  (i - 1 - lastOther) % 2 = 0

JsonUnescapeChar(t, i) ==
    IF JsonEscapeStart(t, i) /\ i < Len(t) THEN <<>>
    ELSE IF JsonEscapeStart(t, i - 1)
         THEN (CASE t[i] = "n" -> <<NL>>
                 [] t[i] = "t" -> <<TAB>>
                 [] OTHER      -> <<t[i]>>)
         ELSE <<t[i]>>

\* the str json.load returns for the text between the quotes of a string
JsonUnescape(t) == Flatten([i \in 1..Len(t) |-> JsonUnescapeChar(t, i)], 1, Len(t))

(***************************************************************************)
(* model.bim on disk.  kind: "absent" (no such file), "invalid" (not JSON  *)
(* text), "list" (JSON, but the document is not an object), "object",      *)
(* "undecodable" (bytes that are not UTF-8 text).                          *)
(* exprs: model.expressions, every string in its JSON-escaped form.        *)
(***************************************************************************)
BimAbsent == [kind |-> "absent", exprs |-> <<>>]

BimInvalid == [kind |-> "invalid", exprs |-> <<>>]

BimList == [kind |-> "list", exprs |-> <<>>]

BimUndecodable == [kind |-> "undecodable", exprs |-> <<>>]

\* json.load of model.bim: model_data["model"]["expressions"]
JsonLoadExprs(file) ==
    [i \in 1..Len(file.exprs) |->
        [name       |-> JsonUnescape(file.exprs[i].name),
         expression |-> JsonUnescape(file.exprs[i].expression),
         kind       |-> JsonUnescape(file.exprs[i].kind)]]

\* json.dump(model_data, f, indent=2)
JsonDumpExprs(exprs) ==
    [kind  |-> "object",
     exprs |-> [i \in 1..Len(exprs) |->
                  [name       |-> JsonEscape(exprs[i].name),
                   expression |-> JsonEscape(exprs[i].expression),
                   kind       |-> JsonEscape(exprs[i].kind)]]]

\* ' meta [IsParameterQuery=true, Type="Any", IsParameterQueryRequired=true]'
BimMetaSuffix ==
    <<" ","m","e","t","a"," ","[","I","s","P","a","r","a","m","e","t","e","r",
      "Q","u","e","r","y","=","t","r","u","e",","," ","T","y","p","e","=","\"",
      "A","n","y","\"",","," ","I","s","P","a","r","a","m","e","t","e","r","Q",
      "u","e","r","y","R","e","q","u","i","r","e","d","=","t","r","u","e","]">>

\* mutant: the value is escaped before it is put between the quotes
NewExpression_Escaped(new_value) ==
    <<Q>> \o JsonEscape(PyStr(new_value)) \o <<Q>> \o BimMetaSuffix

\* f'"{new_value}" meta [IsParameterQuery=true, ...]'
NewExpression(new_value) == <<Q>> \o PyStr(new_value) \o <<Q>> \o BimMetaSuffix

\* The loop over expressions: the expression list after the updates
UpdatedExprs(exprs, row) ==
    [i \in 1..Len(exprs) |->
        IF RowHas(row, exprs[i].name)
        THEN [exprs[i] EXCEPT !.expression = NewExpression(RowGet(row, exprs[i].name))]
        ELSE exprs[i]]

\* mutant: model.bim is written back whether or not an expression matched
UpdateParametersInModelBim_AlwaysWrite(file, row, io) ==
    IF file.kind = "absent" \/ io = "read_fail" THEN [ret |-> "false", file |-> file]
    ELSE IF file.kind = "invalid" THEN [ret |-> "false", file |-> file]
    ELSE IF file.kind = "list" THEN [ret |-> "raise", file |-> file]
    ELSE IF file.kind = "undecodable" THEN [ret |-> "raise_value", file |-> file]
    ELSE IF io = "write_fail" THEN [ret |-> "false", file |-> file]
    ELSE [ret |-> "true",
          file |-> JsonDumpExprs(UpdatedExprs(JsonLoadExprs(file), row))]

\* _update_parameters_in_model_bim.  io: "ok", "read_fail" (open for reading
\* raises OSError) or "write_fail" (open for writing raises OSError).
\* ret: "true", "false", or "raise" (an exception that is neither caught nor
\* converted: here the AttributeError of a document that is not an object),
\* or "raise_value" (the UnicodeDecodeError, a ValueError, of f.read() on
\* bytes that are not UTF-8: line 173 re-raises it, process_row catches it
\* at line 105 and returns False).
UpdateParametersInModelBim(file, row, io) ==
    IF file.kind = "absent" \/ io = "read_fail" THEN [ret |-> "false", file |-> file]
    ELSE IF file.kind = "invalid" THEN [ret |-> "false", file |-> file]
    ELSE IF file.kind = "list" THEN [ret |-> "raise", file |-> file]
    ELSE IF file.kind = "undecodable" THEN [ret |-> "raise_value", file |-> file]
    ELSE LET exprs   == JsonLoadExprs(file)
             updated == \E i \in 1..Len(exprs) : RowHas(row, exprs[i].name)
         IN  IF ~updated THEN [ret |-> "true", file |-> file]
             ELSE IF io = "write_fail" THEN [ret |-> "false", file |-> file]
             ELSE [ret |-> "true", file |-> JsonDumpExprs(UpdatedExprs(exprs, row))]

RECURSIVE FirstQuotedFrom(_, _)
\* re.search(r'"([^"]+)"', s) from position i: <<group 1>>, or <<>> if no match
FirstQuotedFrom(s, i) ==
    LET a == NextCharFrom(s, Q, i)
        b == IF a = 0 THEN 0 ELSE NextCharFrom(s, Q, a + 1)
    IN  IF a = 0 \/ b = 0 THEN <<>>
        ELSE IF b = a + 1 THEN FirstQuotedFrom(s, a + 1)
        ELSE <<SubSeq(s, a + 1, b - 1)>>

StrUnknown == <<"U","n","k","n","o","w","n">>

\* run_detection, BIM branch: the (name, current value) rows it lists
BimLocator(file) ==
    LET exprs == JsonLoadExprs(file)
    IN  [i \in 1..Len(exprs) |->
            LET m == FirstQuotedFrom(exprs[i].expression, 1)
            IN  <<exprs[i].name, IF m = <<>> THEN StrUnknown ELSE m[1]>>]

(***************************************************************************)
(* Batch state while a rewriter specification runs (and the reverse)       *)
(***************************************************************************)
\* a .pbip or .platform document that does not exist
NoDoc == [kind |-> "absent", artifacts |-> <<>>]

NoPlatform ==
    [kind |-> "absent", hasDisplayName |-> FALSE, displayName |-> <<>>,
     text |-> <<>>]

\* no artifact was renamed to a path beside the folder
NoEscaped == [pbip |-> <<>>, report |-> <<>>, model |-> <<>>]

\* a folder that does not exist
NoFolder ==
    [exists |-> FALSE, pbip |-> <<>>, report |-> <<>>, model |-> <<>>,
     pbipDoc |-> NoDoc, platform |-> NoPlatform,
     bim |-> BimAbsent, tmdl |-> <<>>, cache |-> FALSE, extra |-> {},
     escaped |-> NoEscaped]

\* a semantic model directory that does not exist
NoModel == [exists |-> FALSE, bim |-> BimAbsent, tmdl |-> <<>>, cache |-> FALSE]

NoRow ==
    [data_row |-> <<>>, folder_name |-> <<>>, report_name |-> <<>>,
     fault |-> "none", before |-> NoFolder, copied |-> FALSE,
     renamed |-> "none",
     format |-> "none", rewriter |-> "none", cache_deleted |-> "none",
     ret |-> "none", exc |-> "none", rerun |-> FALSE, steps |-> <<>>]

BatchIdle ==
    /\ template = NoFolder
    /\ template_path = <<>>
    /\ total_rows = 0
    /\ out = <<>>
    /\ row_index = 0
    /\ pc = "off"
    /\ num_successful_projects = 0
    /\ cur = NoRow
    /\ hist = <<>>
    /\ snap = <<>>

(***************************************************************************)
(* SpecBim: the single-file rewriter followed by the single-file locator   *)
(***************************************************************************)
StrName == <<"N","a","m","e">>

StrOwner == <<"O","w","n","e","r">>

StrReportName == <<"R","e","p","o","r","t","_","N","a","m","e">>

\* characters of the values tried: a plain one, the delimiter, the JSON escape
BimValueChars == {"a", Q, BS}

RECURSIVE StringsUpTo(_, _)
\* every string over chars of length <= n
StringsUpTo(chars, n) ==
    IF n = 0 THEN {<<>>}
    ELSE LET shorter == StringsUpTo(chars, n - 1)
         IN  shorter \cup {Append(t, c) : t \in shorter, c \in chars}

BimValues == StringsUpTo(BimValueChars, MaxValLen)

BimRows ==
    {<<>>} \cup {<<<<StrName, v>>>> : v \in BimValues}
           \cup {<<<<StrOwner, <<"b">> >>>>}
           \cup {<<<<StrName, v>>, <<StrOwner, <<"b">> >>>> : v \in BimValues}

\* expressions of a template: a parameter and an ordinary query
BimTemplateExprs ==
    {[name |-> n, expression |-> e, kind |-> <<"m">>] :
        n \in {StrName, StrOwner},
        e \in {NewExpression(<<"o","l","d">>), <<"1"," ","+"," ","1">>}}

RECURSIVE SeqsUpTo(_, _)
\* every sequence over S of length <= n
SeqsUpTo(S, n) ==
    IF n = 0 THEN {<<>>}
    ELSE LET shorter == SeqsUpTo(S, n - 1)
         IN  shorter \cup {Append(t, x) : t \in shorter, x \in S}

BimFiles ==
    {BimAbsent, BimInvalid, BimList, BimUndecodable}
        \cup {JsonDumpExprs(es) : es \in SeqsUpTo(BimTemplateExprs, MaxExprs)}

BimInit ==
    /\ BatchIdle
    /\ \E f \in BimFiles, r \in BimRows :
          u = [phase |-> "init", file |-> f, row |-> r, io |-> "ok",
               ret |-> "none", file1 |-> f, readback |-> <<>>]

\* the call _update_parameters_in_model_bim(semantic_model_folder, row)
BimRewrite ==
    /\ u.phase = "init"
    /\ \E io \in {"ok", "read_fail", "write_fail"} :
          LET r == UpdateParametersInModelBim(u.file, u.row, io)
          IN  u' = [u EXCEPT !.phase = "written", !.io = io,
                             !.ret = r.ret, !.file1 = r.file]
    /\ UNCHANGED batchVars

\* run_detection on the rewritten model (BIM branch)
BimLocate ==
    /\ u.phase = "written"
    /\ u.file1.kind = "object"
    /\ u' = [u EXCEPT !.phase = "read", !.readback = BimLocator(u.file1)]
    /\ UNCHANGED batchVars

BimNext == BimRewrite \/ BimLocate

SpecBim == BimInit /\ [][BimNext]_vars

(***************************************************************************)
(* Claims on the single-file rewriter and locator (SpecBim)                *)
(***************************************************************************)
BimCallReturnedTrue == u.phase \in {"written", "read"} /\ u.ret = "true"

\* C6: after a successful _update_parameters_in_model_bim, model.bim read
\* back holds the same expressions in the same order, with name and kind
\* untouched; the expression text of an entry whose name is a key of the row
\* is '"' + row value + '" meta [IsParameterQuery=true, Type="Any",
\* IsParameterQueryRequired=true]' with the value verbatim, and the text of
\* every other entry is what it was.
C6_BimRewriteExact ==
    BimCallReturnedTrue =>
        LET before == JsonLoadExprs(u.file)
            after  == JsonLoadExprs(u.file1)
        IN  /\ Len(after) = Len(before)
            /\ \A i \in 1..Len(before) :
                 /\ after[i].name = before[i].name
                 /\ after[i].kind = before[i].kind
                 /\ after[i].expression =
                      IF before[i].name \in RowKeys(u.row)
                      THEN <<Q>> \o RowGet(u.row, before[i].name) \o <<Q>>
                               \o BimMetaSuffix
                      ELSE before[i].expression

\* C6 witness: a successful call that rewrote one expression with a value
\* holding a quote and left another expression alone
C6_Witness ==
    /\ BimCallReturnedTrue
    /\ u.file.kind = "object"
    /\ RowHas(u.row, StrName)
    /\ Contains(RowGet(u.row, StrName), <<Q>>)
    /\ ~RowHas(u.row, StrOwner)
    /\ \E i, j \in 1..Len(u.file.exprs) :
          /\ JsonUnescape(u.file.exprs[i].name) = StrName
          /\ JsonUnescape(u.file.exprs[j].name) = StrOwner
    /\ u.file1 # u.file

\* C7: for every value V without a double quote (the empty string included),
\* written for parameter P by the single-file rewriter, the single-file
\* locator then lists P with exactly V.
C7_BimRoundTrip ==
    (u.phase = "read" /\ u.ret = "true") =>
        \A i \in 1..Len(u.readback) :
            LET P == u.readback[i][1]
            IN  (RowHas(u.row, P) /\ ~Contains(RowGet(u.row, P), <<Q>>))
                    => u.readback[i][2] = RowGet(u.row, P)

(***************************************************************************)
(* The regular expressions of the multi-file (TMDL) format                 *)
(***************************************************************************)
KwTable == <<"t","a","b","l","e">>

KwSource == <<"s","o","u","r","c","e">>

KwMeta == <<"m","e","t","a">>

KwIsParameterQuery ==
    <<"[","I","s","P","a","r","a","m","e","t","e","r","Q","u","e","r","y","=",
      "t","r","u","e">>

NoMatch == [ok |-> FALSE, value |-> <<>>, end |-> 0]

\* source\s*=\s*"([^"]+)"\s*meta\s*\[IsParameterQuery=true, anchored at i;
\* with tail, followed by [^\]]*\].  end: the position after the match.
SourceAt(s, i, tail) ==
    IF ~StartsAt(s, i, KwSource) THEN NoMatch
    ELSE
    LET b == SkipSpaces(s, i + Len(KwSource))
        c == SkipSpaces(s, b + 1)
        d == NextCharFrom(s, Q, c + 1)
        e == SkipSpaces(s, d + 1)
        f == SkipSpaces(s, e + Len(KwMeta))
        g == f + Len(KwIsParameterQuery)
        h == NextCharFrom(s, "]", g)
    IN  IF /\ StartsAt(s, b, <<"=">>)
           /\ StartsAt(s, c, <<Q>>)
           /\ d > c + 1
           /\ StartsAt(s, e, KwMeta)
           /\ StartsAt(s, f, KwIsParameterQuery)
           /\ (tail => h # 0)
        THEN [ok |-> TRUE, value |-> SubSeq(s, c + 1, d - 1),
              end |-> IF tail THEN h + 1 ELSE g]
        ELSE NoMatch

RECURSIVE SearchSource(_, _, _)
\* the leftmost match of the source pattern at a position >= i
SearchSource(s, i, tail) ==
    LET j == FindFrom(s, KwSource, i)
    IN  IF j = 0 THEN NoMatch
        ELSE LET m == SourceAt(s, j, tail)
             IN  IF m.ok THEN m ELSE SearchSource(s, j + 1, tail)

\* TMDLParser.parameter_pattern.search(content)
ParameterPatternSearch(content) == SearchSource(content, 1, TRUE)

RECURSIVE ParameterPatternFindIter(_, _)
\* TMDLParser.parameter_pattern.finditer(content): group 1 of every match
ParameterPatternFindIter(content, i) ==
    LET m == SearchSource(content, i, TRUE)
    IN  IF ~m.ok THEN <<>>
        ELSE <<m.value>> \o ParameterPatternFindIter(content, m.end)

RECURSIVE TableNameFrom(_, _)
\* TMDLParser.table_name_pattern.search(content): ^table\s+(\w+), MULTILINE
TableNameFrom(s, i) ==
    LET j == FindFrom(s, KwTable, i)
    IN  IF j = 0 THEN NoMatch
        ELSE LET a == j + Len(KwTable)
                 b == SkipSpaces(s, a)
                 c == SkipWord(s, b)
             IN  IF /\ (j = 1 \/ s[j - 1] = NL)
                    /\ IsSpace(s, a)
                    /\ c > b
                 THEN [ok |-> TRUE, value |-> SubSeq(s, b, c - 1), end |-> c]
                 ELSE TableNameFrom(s, j + 1)

TableNamePatternSearch(content) == TableNameFrom(content, 1)

RECURSIVE TablePatternFrom(_, _, _)
\* re.search(rf'table\s+{re.escape(param_name)}\s*\n.*?source\s*=\s*"([^"]+)"
\*           \s*meta\s*\[IsParameterQuery=true', content, DOTALL | MULTILINE)
TablePatternFrom(s, param_name, i) ==
    LET j == FindFrom(s, KwTable, i)
    IN  IF j = 0 THEN NoMatch
        ELSE LET a == j + Len(KwTable)
                 b == SkipSpaces(s, a)
                 c == b + Len(param_name)
                 d == SkipSpaces(s, c)
                 m == SearchSource(s, d, FALSE)
             IN  IF /\ IsSpace(s, a)
                    /\ StartsAt(s, b, param_name)
                    /\ \E k \in c..(d - 1) : s[k] = NL
                    /\ m.ok
                 THEN m
                 ELSE TablePatternFrom(s, param_name, j + 1)

TablePatternSearch(content, param_name) == TablePatternFrom(content, param_name, 1)

(***************************************************************************)
(* A semantic model in the multi-file format: the .tmdl files under the    *)
(* model folder, in the order rglob lists them.  dir: "tables" for         *)
(* definition/tables/<stem>.tmdl, "definition" for definition/<stem>.tmdl, *)
(* "other" for a .tmdl file anywhere else under the model folder.          *)
(***************************************************************************)
\* a Python dict as a sequence of <<key, value>>: d[k] = v
DictPut(d, k, v) ==
    IF \E i \in 1..Len(d) : d[i][1] = k
    THEN [i \in 1..Len(d) |-> IF d[i][1] = k THEN <<k, v>> ELSE d[i]]
    ELSE Append(d, <<k, v>>)

RECURSIVE DictUpdate(_, _, _)
\* d.update(e), from the i-th item of e on
DictUpdate(d, e, i) ==
    IF i > Len(e) THEN d ELSE DictUpdate(DictPut(d, e[i][1], e[i][2]), e, i + 1)

\* TMDLParser.extract_parameters_from_table on a file with this content
ExtractParametersFromTable(content) ==
    LET values == ParameterPatternFindIter(content, 1)
        table_name_match == TableNamePatternSearch(content)
    IN  IF values = <<>> \/ ~table_name_match.ok THEN <<>>
        ELSE <<<<table_name_match.value, values[Len(values)]>>>>

\* TMDLParser.find_parameter_tables: the files of definition/tables that
\* hold a parameter expression (the code lists their stems)
FindParameterTables(files) ==
    SelectSeq(files, LAMBDA f : f.dir = "tables" /\ ParameterPatternSearch(f.content).ok)

RECURSIVE GetAllParametersFrom(_, _, _)
GetAllParametersFrom(tables, all_parameters, i) ==
    IF i > Len(tables) THEN all_parameters
    ELSE GetAllParametersFrom(tables,
             DictUpdate(all_parameters, ExtractParametersFromTable(tables[i].content), 1),
             i + 1)

\* TMDLParser.get_all_parameters: the multi-file locator
GetAllParameters(files) == GetAllParametersFrom(FindParameterTables(files), <<>>, 1)

\* mutant: the value of the first parameter expression found, whatever
\* table declares it
CurrentValue_AnyTable(files, param_name, unreadable) ==
    LET hits == {i \in 1..Len(files) :
                    /\ i \notin unreadable
                    /\ ParameterPatternSearch(files[i].content).ok}
    IN  IF hits = {} THEN NoMatch
        ELSE ParameterPatternSearch(files[MinPos(hits)].content)

\* _update_parameters_in_tmdl, first inner loop: the current value of
\* param_name.  unreadable: the files whose open() raises.
CurrentValue(files, param_name, unreadable) ==
    LET hits == {i \in 1..Len(files) :
                    /\ i \notin unreadable
                    /\ TablePatternSearch(files[i].content, param_name).ok}
    IN  IF hits = {} THEN NoMatch
        ELSE TablePatternSearch(files[MinPos(hits)].content, param_name)

\* mutant: only the table file that declares the parameter is rewritten
ReplaceInTmdlFiles_OwnFileOnly(files, param_name, current_value, new_value, unreadable) ==
    [i \in 1..Len(files) |->
        IF /\ i \notin unreadable
           /\ new_value # NoneVal
           /\ TablePatternSearch(files[i].content, param_name).ok
        THEN [files[i] EXCEPT !.content = Replace(@, current_value, new_value)]
        ELSE files[i]]

\* _update_parameters_in_tmdl, second inner loop: every file that holds the
\* current value is rewritten.  A failing open() and the TypeError of
\* str.replace(old, None) are swallowed by "except Exception: continue".
ReplaceInTmdlFiles(files, param_name, current_value, new_value, unreadable) ==
    [i \in 1..Len(files) |->
        IF /\ i \notin unreadable
           /\ new_value # NoneVal
           /\ Contains(files[i].content, current_value)
        THEN [files[i] EXCEPT !.content = Replace(@, current_value, new_value)]
        ELSE files[i]]

\* one iteration of "for param_name, new_value in row.data.items()"
TmdlParamStep(files, param_name, new_value, unreadable) ==
    LET current_value == CurrentValue(files, param_name, unreadable)
    IN  IF ~current_value.ok THEN files
        ELSE IF current_value.value = new_value THEN files
        ELSE ReplaceInTmdlFiles(files, param_name, current_value.value,
                                new_value, unreadable)

\* whether an open() or read() of that iteration raised (the two handlers
\* 'except Exception: continue'): the search reads the files up to the first
\* one that declares the parameter, the replacement reads all of them
TmdlParamStepIoError(files, param_name, new_value, unreadable) ==
    LET current_value == CurrentValue(files, param_name, unreadable)
        hits == {i \in 1..Len(files) :
                    /\ i \notin unreadable
                    /\ TablePatternSearch(files[i].content, param_name).ok}
        last == IF hits = {} THEN Len(files) ELSE MinPos(hits)
    IN  \/ unreadable \cap 1..last # {}
        \/ /\ current_value.ok
           /\ current_value.value # new_value
           /\ unreadable \cap 1..Len(files) # {}

RECURSIVE TmdlParamLoop(_, _, _, _)
\* the loop "for param_name, new_value in row.data.items()" from the k-th
\* item on (the files after an iteration are bound before the next one)
TmdlParamLoop(files, row, k, unreadable) ==
    IF k > Len(row) THEN files
    ELSE CHOOSE result \in
            {TmdlParamLoop(fs, row, k + 1, unreadable) :
                fs \in {TmdlParamStep(files, row[k][1], row[k][2], unreadable)}} :
            TRUE

\* _update_parameters_in_tmdl: it returns True on every path that returns
UpdateParametersInTmdl(files, row, unreadable) ==
    [ret   |-> "true",
     files |-> IF files = <<>> THEN files ELSE TmdlParamLoop(files, row, 1, unreadable)]

(***************************************************************************)
(* SpecTmdl: the multi-file rewriter, one row key after the other, then    *)
(* the multi-file locator                                                  *)
(***************************************************************************)
\* 'table <name>\n\tpartition <name> = m\n\t\tsource = "<value>" meta [...]\n'
ParamTableText(name, value) ==
    <<"t","a","b","l","e"," ">> \o name
        \o <<"\n","\t","p","a","r","t","i","t","i","o","n"," ">> \o name
        \o <<" ","="," ","m","\n","\t","\t","s","o","u","r","c","e"," ","="," ","\"">>
        \o value
        \o <<"\""," ","m","e","t","a"," ","[","I","s","P","a","r","a","m","e","t",
             "e","r","Q","u","e","r","y","=","t","r","u","e",","," ","T","y","p",
             "e","=","\"","T","e","x","t","\"","]","\n">>

\* a table that is no parameter: 'table <name>\n\t/// <note>\n'
PlainTableText(name, note) ==
    <<"t","a","b","l","e"," ">> \o name \o <<"\n","\t","/","/","/"," ">>
        \o note \o <<"\n">>

StrModel == <<"m","o","d","e","l">>

StrSales == <<"S","a","l","e","s">>

ModelTmdl ==
    [dir |-> "definition", stem |-> StrModel,
     content |-> <<"m","o","d","e","l"," ","M","o","d","e","l","\n">>]

TableFile(stem, content) == [dir |-> "tables", stem |-> stem, content |-> content]

\* parameter tables P and R, and the table Sales whose comment echoes a text
TmdlModel(pValue, rValue, note) ==
    <<ModelTmdl,
      TableFile(<<"P">>, ParamTableText(<<"P">>, pValue)),
      TableFile(<<"R">>, ParamTableText(<<"R">>, rValue)),
      TableFile(StrSales, PlainTableText(StrSales, note))>>

TmdlModels ==
    {TmdlModel(p, r, n) : p \in {<<"k">>, <<"a">>},
                          r \in {<<"w">>},
                          n \in {<<"k">>, <<"x">>}}

\* "k" and "w" occur in no keyword of the format, "e" in most of them
TmdlValueChars == {"k", "w", "e", Q}

TmdlValues == StringsUpTo(TmdlValueChars, MaxValLen)

TmdlRows ==
    {<<>>, <<<<StrReportName, <<"k">> >>>>}
      \cup {<<<<<<"P">>, v>>>> : v \in TmdlValues}
      \cup {<<<<StrReportName, <<"g">> >>, <<<<"P">>, v>>>> : v \in {<<"k">>, <<"w">>}}
      \cup {<<<<<<"P">>, v>>, <<<<"R">>, w>>>> : v \in TmdlValues, w \in {<<"w">>, <<"z">>}}
      \cup {<<<<<<"R">>, w>>, <<<<"P">>, v>>>> : v \in TmdlValues, w \in {<<"w">>, <<"z">>}}

TmdlInit ==
    /\ BatchIdle
    /\ \E fs \in TmdlModels, r \in TmdlRows, bad \in {{}, {4}} :
          u = [phase |-> "init", files0 |-> fs, row |-> r, unreadable |-> bad,
               files |-> fs, k |-> 1, prev |-> fs, ret |-> "none",
               readback |-> <<>>, io_error |-> FALSE]

\* the call: tmdl_files = list(semantic_model_folder.rglob('*.tmdl'))
TmdlCall ==
    /\ u.phase = "init"
    /\ u' = [u EXCEPT !.phase = "loop", !.k = 1]
    /\ UNCHANGED batchVars

\* one iteration of the loop over row.data.items()
TmdlIter ==
    /\ u.phase = "loop"
    /\ u.k <= Len(u.row)
    /\ u' = [u EXCEPT !.prev = u.files,
                      !.files = TmdlParamStep(u.files, u.row[u.k][1],
                                              u.row[u.k][2], u.unreadable),
                      !.k = u.k + 1,
                      !.io_error = @ \/ TmdlParamStepIoError(
                                            u.files, u.row[u.k][1],
                                            u.row[u.k][2], u.unreadable)]
    /\ UNCHANGED batchVars

\* return True
TmdlReturn ==
    /\ u.phase = "loop"
    /\ u.k > Len(u.row)
    /\ u' = [u EXCEPT !.phase = "returned", !.ret = "true"]
    /\ UNCHANGED batchVars

\* get_all_parameters on the rewritten model
TmdlLocate ==
    /\ u.phase = "returned"
    /\ u' = [u EXCEPT !.phase = "read", !.readback = GetAllParameters(u.files)]
    /\ UNCHANGED batchVars

TmdlNext == TmdlCall \/ TmdlIter \/ TmdlReturn \/ TmdlLocate

SpecTmdl == TmdlInit /\ [][TmdlNext]_vars

(***************************************************************************)
(* Claims on the multi-file rewriter and locator (SpecTmdl)                *)
(***************************************************************************)
RECURSIVE OccurrencesFrom(_, _, _)
\* where old occurs in s, read left to right without overlap
OccurrencesFrom(s, old, i) ==
    LET hits == {j \in i..Len(s) : StartsAt(s, j, old)}
    IN  IF hits = {} THEN {}
        ELSE LET j == CHOOSE x \in hits : \A y \in hits : x <= y
             IN  {j} \cup OccurrencesFrom(s, old, j + Len(old))

\* s with new in the place of every occurrence of old
EveryOccurrenceReplaced(s, old, new) ==
    LET occ == OccurrencesFrom(s, old, 1)
    IN  Flatten([i \in 1..Len(s) |->
                    IF i \in occ THEN new
                    ELSE IF \E j \in occ : j < i /\ i < j + Len(old) THEN <<>>
                    ELSE <<s[i]>>], 1, Len(s))

\* the iteration just done found a current value that differs from the row's
TmdlIterReplaced ==
    /\ u.phase = "loop"
    /\ u.k > 1
    /\ u.unreadable = {}
    /\ LET cv == CurrentValue(u.prev, u.row[u.k - 1][1], {})
       IN  cv.ok /\ cv.value # u.row[u.k - 1][2]

\* C10: when the parameter of the iteration has the literal value OLD and the
\* row asks for NEW # OLD (no file operation failing), every .tmdl file of
\* the model folder, the parameter's own table or not, afterwards holds NEW
\* wherever it held OLD, and is otherwise unchanged.
C10_TmdlGlobalReplace ==
    TmdlIterReplaced =>
        LET oldValue == CurrentValue(u.prev, u.row[u.k - 1][1], {}).value
            newValue == u.row[u.k - 1][2]
        IN  /\ Len(u.files) = Len(u.prev)
            /\ \A i \in 1..Len(u.prev) :
                 /\ u.files[i].dir = u.prev[i].dir
                 /\ u.files[i].stem = u.prev[i].stem
                 /\ u.files[i].content =
                        EveryOccurrenceReplaced(u.prev[i].content, oldValue, newValue)

\* C10 witness: an iteration for P rewrote the table file Sales, which only
\* echoes P's old value in a comment, and P's own table file
C10_Witness ==
    /\ TmdlIterReplaced
    /\ u.row[u.k - 1][1] = <<"P">>
    /\ CurrentValue(u.prev, <<"P">>, {}).value = <<"k">>
    /\ u.files[4].stem = StrSales
    /\ u.files[4].content # u.prev[4].content
    /\ u.files[2].content # u.prev[2].content
    /\ u.files[3].content = u.prev[3].content

\* the names the multi-file locator lists for a model
DeclaredParameters(files) ==
    LET all == GetAllParameters(files) IN {all[i][1] : i \in 1..Len(all)}

\* C8: after _update_parameters_in_tmdl returned (no file operation failing),
\* the multi-file locator lists, for every row key P that is the declared
\* name of a parameter table and whose row value V holds no double quote,
\* exactly V for P, for all such keys at once.
C8_TmdlRoundTrip ==
    (u.phase = "read" /\ u.unreadable = {}) =>
        \A k \in 1..Len(u.row) :
            LET P == u.row[k][1]
                V == u.row[k][2]
            IN  (P \in DeclaredParameters(u.files0) /\ ~Contains(V, <<Q>>))
                    => \E i \in 1..Len(u.readback) : u.readback[i] = <<P, V>>

(***************************************************************************)
(* A project folder (the template, or one folder of the output directory). *)
(* pbip, report, model: <<stem>> of the top-level <stem>.pbip file,        *)
(* <stem>.Report and <stem>.SemanticModel directories, <<>> when absent.   *)
(* pbipDoc: the .pbip file, kind "object" (artifacts: its "artifacts"      *)
(* list, each entry one key with a "path"), "list", "invalid" or "absent". *)
(* platform: the .platform file of the report directory.  bim, tmdl,       *)
(* cache: model.bim, the *.tmdl files and .pbi/cache.abf of the semantic   *)
(* model directory.  extra: other top-level files, all with an extension   *)
(* that _replace_references_in_files skips.  escaped: what the renames of  *)
(* a row whose name is "../" and a plain name put beside the folder, at    *)
(* output_folder / "../<name>.<ext>": the .pbip file <<doc>>, the .platform*)
(* file of the report directory <<platform>>, the semantic model directory *)
(* <<[exists, bim, tmdl, cache]>>; <<>> when there is none.                *)
(***************************************************************************)
StrReportKey == <<"r","e","p","o","r","t">>

StrDatasetKey == <<"d","a","t","a","s","e","t">>

ExtReport == <<".","R","e","p","o","r","t">>

ExtSemanticModel == <<".","S","e","m","a","n","t","i","c","M","o","d","e","l">>

\* mutant: the fallback name is made of the owner, then the name
GetFolderName_OwnerFirst(row) ==
    IF RowHas(row, StrReportName) THEN RowGet(row, StrReportName)
    ELSE LET name  == IF RowHas(row, StrName) THEN RowGet(row, StrName)
                      ELSE StrUnknown
             owner == IF RowHas(row, StrOwner) THEN RowGet(row, StrOwner)
                      ELSE StrUnknown
         IN  PyStr(owner) \o <<"_">> \o PyStr(name)

\* DataRow.get_folder_name
GetFolderName(row) ==
    IF RowHas(row, StrReportName) THEN RowGet(row, StrReportName)
    ELSE LET name  == IF RowHas(row, StrName) THEN RowGet(row, StrName)
                      ELSE StrUnknown
             owner == IF RowHas(row, StrOwner) THEN RowGet(row, StrOwner)
                      ELSE StrUnknown
         IN  PyStr(name) \o <<"_">> \o PyStr(owner)

\* process_row: report_name = row.data.get("Report_Name", folder_name)
GetReportName(row, folder_name) ==
    IF RowHas(row, StrReportName) THEN RowGet(row, StrReportName)
    ELSE folder_name

\* the names of the rows are plain names or "../" followed by a plain name;
\* Path joins the latter to a path beside the folder it is joined to
Escapes(name) ==
    /\ Len(name) > 3
    /\ SubSeq(name, 1, 3) = <<".", ".", "/">>

\* _copy_pbip_folder.  io: "ok", "rmtree_io" (shutil.rmtree raises OSError
\* at once) or "copytree_io" (shutil.copytree raises at once).  What lies
\* beside the destination is not touched.
\* same: dest_path and source_path are one directory.  src of the result
\* is the source directory after the call.
CopyPbipFolder(dest, src, io, same) ==
    IF dest.exists /\ io = "rmtree_io"
    THEN [ret |-> FALSE, dest |-> dest, src |-> src]
    ELSE LET src1 == IF same /\ dest.exists THEN NoFolder ELSE src
         IN  IF io # "ok" \/ ~src1.exists
             THEN [ret |-> FALSE, src |-> src1,
                   dest |-> [NoFolder EXCEPT !.escaped = dest.escaped]]
             ELSE [ret |-> TRUE, src |-> src1,
                   dest |-> [src1 EXCEPT !.escaped = dest.escaped]]

\* The loop over iterdir() that derives the template name: the stem of the
\* first entry that is a .Report directory or a .pbip file.  The order of
\* iterdir() is arbitrary, so every candidate is a possible result;
\* {<<>>} when there is none.
DeriveTemplateNames(f) ==
    LET cands == {f.report[i] : i \in 1..Len(f.report)}
                   \cup {f.pbip[i] : i \in 1..Len(f.pbip)}
    IN  IF cands = {} THEN {<<>>} ELSE {<<c>> : c \in cands}

\* mutant: displayName gets the substring replacement like any other text
ReplaceInPlatform_Substring(p, old_name, new_name) ==
    IF p.kind = "object"
    THEN IF p.hasDisplayName
         THEN [p EXCEPT !.displayName = Replace(@, old_name, new_name)]
         ELSE p
    ELSE IF p.kind = "invalid"
    THEN [p EXCEPT !.text = Replace(p.text, old_name, new_name)]
    ELSE p

\* _replace_references_in_files on the .platform file
ReplaceInPlatform(p, old_name, new_name) ==
    IF p.kind = "object"
    THEN IF p.hasDisplayName
         THEN [p EXCEPT !.displayName = JsonEscape(new_name)]
         ELSE p
    ELSE IF p.kind = "invalid"
    THEN [p EXCEPT !.text = Replace(p.text, old_name, new_name)]
    ELSE p

\* str.replace on the text of a JSON document whose strings are s1, s2, ...
\* and in whose other text old_name does not occur: the keys of the entries
\* are replaced like the paths
ReplaceInArtifacts(arts, old_name, new_name) ==
    [i \in 1..Len(arts) |->
        [key  |-> Replace(arts[i].key, old_name, new_name),
         path |-> Replace(arts[i].path, old_name, new_name)]]

ReplaceInBim(file, old_name, new_name) ==
    IF file.kind # "object" THEN file
    ELSE [file EXCEPT !.exprs =
            [i \in 1..Len(file.exprs) |->
                [name       |-> Replace(file.exprs[i].name, old_name, new_name),
                 expression |-> Replace(file.exprs[i].expression, old_name, new_name),
                 kind       |-> Replace(file.exprs[i].kind, old_name, new_name)]]]

ReplaceInTmdl(files, old_name, new_name) ==
    [i \in 1..Len(files) |->
        [files[i] EXCEPT !.content = Replace(files[i].content, old_name, new_name)]]

\* _replace_references_in_files(folder, old_name, new_name)
ReplaceReferencesInFiles(f, old_name, new_name) ==
    [f EXCEPT
        !.pbipDoc  = IF f.pbipDoc.kind = "object"
                     THEN [f.pbipDoc EXCEPT !.artifacts =
                             ReplaceInArtifacts(f.pbipDoc.artifacts, old_name, new_name)]
                     ELSE f.pbipDoc,
        !.platform = ReplaceInPlatform(f.platform, old_name, new_name),
        !.bim      = ReplaceInBim(f.bim, old_name, new_name),
        !.tmdl     = ReplaceInTmdl(f.tmdl, old_name, new_name)]

\* 'artifacts = [artifact for artifact in artifacts if "report" in artifact]'
KeepReportArtifacts(arts) == SelectSeq(arts, LAMBDA a : a.key = StrReportKey)

\* Path.rename of the .pbip file to output_folder / f"{report_name}.pbip";
\* a file that is at the target is replaced
PutPbip(f, report_name) ==
    IF Escapes(report_name)
    THEN [f EXCEPT !.pbip = <<>>, !.pbipDoc = NoDoc,
                   !.escaped.pbip = <<f.pbipDoc>>]
    ELSE [f EXCEPT !.pbip = <<report_name>>]

\* Path.rename of the .Report directory
PutReport(f, report_name) ==
    IF Escapes(report_name)
    THEN [f EXCEPT !.report = <<>>, !.platform = NoPlatform,
                   !.escaped.report = <<f.platform>>]
    ELSE [f EXCEPT !.report = <<report_name>>]

\* Path.rename of the .SemanticModel directory
PutModel(f, report_name) ==
    IF Escapes(report_name)
    THEN [f EXCEPT !.model = <<>>, !.bim = BimAbsent, !.tmdl = <<>>,
                   !.cache = FALSE,
                   !.escaped.model = <<[exists |-> TRUE, bim |-> f.bim,
                                        tmdl |-> f.tmdl, cache |-> f.cache]>>]
    ELSE [f EXCEPT !.model = <<report_name>>]

\* Path.rename of a directory raises OSError when a directory that is not
\* empty is at the target; the directories of the model are never empty
TargetTaken(f, report_name, what) ==
    Escapes(report_name) /\ f.escaped[what] # <<>>

\* _rename_internal_files_and_folders, the three Path.rename calls.
\* fail_at names the call that raises OSError, if it is made.
RenameTopLevel(f, template_name, report_name, fail_at) ==
    LET f1 == IF f.pbip = <<template_name>>
              THEN PutPbip(f, report_name) ELSE f
        f2 == IF f1.report = <<template_name>>
              THEN PutReport(f1, report_name) ELSE f1
        f3 == IF f2.model = <<template_name>>
              THEN PutModel(f2, report_name) ELSE f2
    IN  IF f.pbip = <<template_name>> /\ fail_at = "rename_pbip_io"
        THEN [ok |-> FALSE, folder |-> f]
        ELSE IF f1.report = <<template_name>>
                /\ (fail_at = "rename_report_io"
                      \/ TargetTaken(f1, report_name, "report"))
        THEN [ok |-> FALSE, folder |-> f1]
        ELSE IF f2.model = <<template_name>>
                /\ (fail_at = "rename_model_io"
                      \/ TargetTaken(f2, report_name, "model"))
        THEN [ok |-> FALSE, folder |-> f2]
        ELSE [ok |-> TRUE, folder |-> f3]

\* the file at output_folder / f"{report_name}.pbip"
PbipAt(f, report_name) ==
    IF Escapes(report_name)
    THEN IF f.escaped.pbip = <<>> THEN NoDoc ELSE f.escaped.pbip[1]
    ELSE IF f.pbip = <<report_name>> THEN f.pbipDoc ELSE NoDoc

SetPbipAt(f, report_name, doc) ==
    IF Escapes(report_name) THEN [f EXCEPT !.escaped.pbip = <<doc>>]
    ELSE [f EXCEPT !.pbipDoc = doc]

\* _rename_internal_files_and_folders(output_folder, report_name), with
\* template_name the result of its iterdir() loop (<<>> for None).
\* status: "ok", "no_template_name", "failed" (an exception caught and
\* reported by the helper); exc: the exception it lets through, or "none".
RenameInternalFilesAndFolders(f, report_name, template_name, fail_at) ==
    IF template_name = <<>>
    THEN [folder |-> f, status |-> "no_template_name", exc |-> "none"]
    ELSE
    LET r  == RenameTopLevel(f, template_name[1], report_name, fail_at)
        f4 == ReplaceReferencesInFiles(r.folder, template_name[1], report_name)
        doc == PbipAt(f4, report_name)
    IN  IF ~r.ok
        THEN [folder |-> r.folder, status |-> "failed", exc |-> "none"]
        ELSE IF doc.kind = "absent"
        THEN [folder |-> f4, status |-> "ok", exc |-> "none"]
        ELSE IF doc.kind = "invalid"
        THEN [folder |-> f4, status |-> "failed", exc |-> "none"]
        ELSE IF doc.kind = "list"
        THEN [folder |-> f4, status |-> "failed", exc |-> "AttributeError"]
        ELSE [folder |-> SetPbipAt(f4, report_name,
                            [doc EXCEPT !.artifacts =
                                KeepReportArtifacts(
                                    ReplaceInArtifacts(doc.artifacts,
                                        template_name[1], report_name))]),
              status |-> "ok", exc |-> "none"]

\* process_row, lines 70-81: the second iterdir() loop and the second
\* _replace_references_in_files
ReplaceReferencesAgain(f, report_name, template_name) ==
    IF template_name = <<>> THEN f
    ELSE ReplaceReferencesInFiles(f, template_name[1], report_name)

\* the directory at output_folder / f"{report_name}.SemanticModel"
ModelAt(f, report_name) ==
    IF Escapes(report_name)
    THEN IF f.escaped.model = <<>> THEN NoModel ELSE f.escaped.model[1]
    ELSE IF f.model = <<report_name>>
    THEN [exists |-> TRUE, bim |-> f.bim, tmdl |-> f.tmdl, cache |-> f.cache]
    ELSE NoModel

\* mutant: what a rewriter leaves is stored without the cache file
SetModelAt_DropCache(f, report_name, m) ==
    IF ~m.exists THEN f
    ELSE IF Escapes(report_name)
    THEN [f EXCEPT !.escaped.model = <<[m EXCEPT !.cache = FALSE]>>]
    ELSE [f EXCEPT !.bim = m.bim, !.tmdl = m.tmdl, !.cache = FALSE]

\* the model of the row is written back to where ModelAt found it
SetModelAt(f, report_name, m) ==
    IF ~m.exists THEN f
    ELSE IF Escapes(report_name) THEN [f EXCEPT !.escaped.model = <<m>>]
    ELSE [f EXCEPT !.bim = m.bim, !.tmdl = m.tmdl, !.cache = m.cache]

\* TMDLParser.detect_model_format(semantic_model_path)
\* mutant: the TMDL structure is looked for before model.bim
DetectModelFormat_TmdlFirst(m) ==
    IF ~m.exists THEN "unknown"
    ELSE IF \E i \in 1..Len(m.tmdl) :
                m.tmdl[i].dir = "definition" /\ m.tmdl[i].stem = StrModel
    THEN "tmdl"
    ELSE IF m.bim.kind # "absent" THEN "bim"
    ELSE "unknown"

DetectModelFormat(m) ==
    IF ~m.exists THEN "unknown"
    ELSE IF m.bim.kind # "absent" THEN "bim"
    ELSE IF \E i \in 1..Len(m.tmdl) :
                m.tmdl[i].dir = "definition" /\ m.tmdl[i].stem = StrModel
    THEN "tmdl"
    ELSE "unknown"

\* mutant: the cache file is reported as deleted and left where it is
DeleteCacheFile_Keep(m, io) ==
    IF m.cache /\ io = "cache_io" THEN [ret |-> FALSE, model |-> m]
    ELSE [ret |-> TRUE, model |-> m]

\* _delete_cache_file(semantic_model_folder).  io: "cache_io" when
\* Path.unlink raises OSError
DeleteCacheFile(m, io) ==
    IF ~m.cache THEN [ret |-> TRUE, model |-> m]
    ELSE IF io = "cache_io" THEN [ret |-> FALSE, model |-> m]
    ELSE [ret |-> TRUE, model |-> [m EXCEPT !.cache = FALSE]]

\* mutant of process_row's handlers: every exception is reported and
\* turned into a failed row
ProcessRowExcept_CatchAll(exc) == "return_false"

\* process_row, lines 105-110: what its handlers do with an exception
ProcessRowExcept(exc) ==
    IF exc \in {"OSError", "ValueError"} THEN "return_false" ELSE "raise"

\* process_data, lines 39-43: what its handlers do with an exception
ProcessDataExcept(exc) ==
    IF exc \in {"OSError", "ValueError"} THEN "continue" ELSE "raise"

\* mutant: the row goes on after a copy that failed
ProcessRowAfterCopy_GoOn(copied) == "rename"

\* process_row, lines 63-64: 'if not self._copy_pbip_folder(...): return False'
ProcessRowAfterCopy(copied) == IF copied THEN "rename" ELSE "return_false"

\* mutant: a cache file that cannot be deleted fails the row
ReturnAfterCache_CacheMatters(deleted) == IF deleted THEN "true" ELSE "false"

\* process_row, lines 100-103: a failed deletion only warns
ReturnAfterCache(deleted) == "true"

\* mutant: the batch stops at the first row that fails
ProcessDataAfterRow_StopOnFailure(success) ==
    IF success THEN "continue" ELSE "break"

\* process_data, lines 33-37: both branches fall through to the next row
ProcessDataAfterRow(success) == "continue"

\* mutant: every row is counted
CountAfterRow_Always(n, success) == n + 1

\* process_data, lines 33-34
CountAfterRow(n, success) == IF success THEN n + 1 ELSE n

(***************************************************************************)
(* Spec: process_data over a batch.  The rows of the list are drawn one by *)
(* one as the loop reaches them; a file operation of a row may fail, at    *)
(* most MaxFaults times in a batch.                                        *)
(***************************************************************************)
\* the template's name; its letter occurs in no text of the file formats
TemplateName == <<"j">>

TemplatePbip ==
    [kind |-> "object",
     artifacts |-> <<[key |-> StrReportKey, path |-> TemplateName \o ExtReport],
                     [key |-> StrDatasetKey,
                      path |-> TemplateName \o ExtSemanticModel]>>]

TemplatePlatform ==
    [kind |-> "object", hasDisplayName |-> TRUE, displayName |-> TemplateName,
     text |-> <<>>]

TemplateBim ==
    JsonDumpExprs(<<[name |-> StrName, expression |-> NewExpression(<<"k">>),
                     kind |-> <<"m">>],
                    [name |-> StrOwner, expression |-> NewExpression(<<"v">>),
                     kind |-> <<"m">>]>>)

TemplateTmdl ==
    <<ModelTmdl,
      TableFile(StrName, ParamTableText(StrName, <<"k">>)),
      TableFile(StrOwner, ParamTableText(StrOwner, <<"v">>))>>

TemplateFolder(pbipDoc, bim, tmdl) ==
    [exists |-> TRUE, pbip |-> <<TemplateName>>, report |-> <<TemplateName>>,
     model |-> <<TemplateName>>, pbipDoc |-> pbipDoc,
     platform |-> TemplatePlatform, bim |-> bim, tmdl |-> tmdl,
     cache |-> TRUE, extra |-> {}, escaped |-> NoEscaped]

\* a BIM template, a TMDL template, a template with neither model format,
\* and templates whose model.bim or .pbip is not the JSON the code expects
\* (text that is no JSON; JSON that is a list, not an object)
Templates ==
    {TemplateFolder(TemplatePbip, TemplateBim, <<>>),
     TemplateFolder(TemplatePbip, BimAbsent, TemplateTmdl),
     TemplateFolder(TemplatePbip, BimAbsent, <<>>),
     TemplateFolder(TemplatePbip, BimInvalid, <<>>),
     TemplateFolder(TemplatePbip, BimList, <<>>),
     TemplateFolder([kind |-> "invalid", artifacts |-> <<>>], TemplateBim, <<>>),
     TemplateFolder([kind |-> "list", artifacts |-> <<>>], TemplateBim, <<>>)}

\* the folder name that leads out of the output directory
EscapingName == <<".", ".", "/", "x">>

\* rows of a CSV with the columns Report_Name, Name, Owner: a row with a
\* Report_Name, a row without one (the name made of its Name and Owner
\* holds the template's name), a row whose Report_Name is None, a row
\* whose Report_Name leads out of the output directory
RowSet ==
    {<<<<StrReportName, <<"g">> >>, <<StrName, <<"v">> >>, <<StrOwner, <<"z">> >>>>,
     <<<<StrName, TemplateName>>, <<StrOwner, <<"z">> >>>>,
     <<<<StrReportName, NoneVal>>, <<StrName, <<"k">> >>, <<StrOwner, <<"v">> >>>>,
     <<<<StrReportName, EscapingName>>, <<StrName, <<"k">> >>,
       <<StrOwner, <<"v">> >>>>}

FolderNames == {GetFolderName(r) : r \in RowSet} \ {NoneVal}

\* what an earlier run of another tool left under the name "g"
StaleFolder ==
    [exists |-> TRUE, pbip |-> <<<<"g">>>>, report |-> <<>>, model |-> <<<<"g">>>>,
     pbipDoc |-> [kind |-> "invalid", artifacts |-> <<>>],
     platform |-> NoPlatform, bim |-> BimInvalid, tmdl |-> <<>>,
     cache |-> TRUE, extra |-> {"junk.bin"}, escaped |-> NoEscaped]

\* the template that is also run over an output directory that is not empty
StaleTemplates == {TemplateFolder(TemplatePbip, TemplateBim, <<>>)}

FaultKinds ==
    {"rmtree_io", "copytree_io", "rename_pbip_io", "rename_report_io",
     "rename_model_io", "bim_write_io", "cache_io"}

NoSnap == [ret |-> "none", before |-> NoFolder, folder |-> NoFolder]

Init ==
    /\ u = <<>>
    /\ template \in Templates
    /\ template_path \in {<<>>} \cup
                          {EscapingName : x \in {template} \cap StaleTemplates}
    /\ total_rows \in 0..MaxRows
    /\ out \in {[n \in FolderNames |->
                    IF n = template_path THEN template ELSE NoFolder]}
                \cup {[n \in FolderNames |->
                         IF n = <<"g">> THEN StaleFolder ELSE NoFolder] :
                      x \in {template} \cap
                             (IF template_path = <<>> THEN StaleTemplates ELSE {})}
    /\ row_index = 1
    /\ pc = "loop"
    /\ num_successful_projects = 0
    /\ cur = NoRow
    /\ hist = [attempted |-> 0, returned_true |-> 0, failed |-> 0,
               copy_failed_rows |-> {}, ok_names |-> {}, faults |-> 0,
               unexpected |-> FALSE]
    /\ snap = [r \in RowSet |-> NoSnap]

FaultChoices == IF hist.faults < MaxFaults THEN FaultKinds \cup {"none"} ELSE {"none"}

\* process_row returns to process_data (lines 33-37), which counts the row
\* and goes on; c and o are the row's record and the output directory at
\* the return.  snap keeps what the first undisturbed run of a row left.
RowReturns(c, o, h, success, unexpected) ==
    /\ cur' = [c EXCEPT !.ret = IF success THEN "true" ELSE "false",
                        !.rerun = snap[c.data_row] # NoSnap]
    /\ out' = o
    /\ num_successful_projects' = CountAfterRow(num_successful_projects, success)
    /\ IF ProcessDataAfterRow(success) = "continue"
       THEN row_index' = row_index + 1 /\ pc' = "loop"
       ELSE row_index' = row_index /\ pc' = "returned"
    /\ hist' = [h EXCEPT
                  !.returned_true = IF success THEN @ + 1 ELSE @,
                  !.failed = IF success THEN @ ELSE @ + 1,
                  !.copy_failed_rows = IF c.copied THEN @ ELSE @ \cup {row_index},
                  !.ok_names = IF success THEN @ \cup {c.folder_name}
                               ELSE @ \ {c.folder_name},
                  !.unexpected = @ \/ unexpected]
    /\ snap' = IF c.fault = "none" /\ snap[c.data_row] = NoSnap
               THEN [snap EXCEPT ![c.data_row] =
                        [ret |-> IF success THEN "true" ELSE "false",
                         before |-> c.before,
                         folder |-> IF c.folder_name \in DOMAIN o
                                    THEN o[c.folder_name] ELSE NoFolder]]
               ELSE snap
    /\ UNCHANGED <<template_path, total_rows, u>>

\* an exception exc leaves a step of process_row: the handlers of
\* process_row (lines 105-110), then those of process_data (lines 39-43)
RowRaises(c, o, h, exc) ==
    LET unexpected == exc \notin {"OSError", "ValueError"}
        c2 == [c EXCEPT !.exc = exc]
    IN  IF ProcessRowExcept(exc) = "return_false"
        THEN RowReturns(c2, o, h, FALSE, unexpected)
        ELSE /\ cur' = [c2 EXCEPT !.ret = "raise"]
             /\ out' = o
             /\ IF ProcessDataExcept(exc) = "continue"
                THEN row_index' = row_index + 1 /\ pc' = "loop"
                ELSE row_index' = row_index /\ pc' = "aborted"
             /\ hist' = [h EXCEPT !.failed = @ + 1,
                                     !.ok_names = @ \ {c.folder_name},
                                     !.unexpected = @ \/ unexpected]
             /\ UNCHANGED <<template_path, total_rows,
                            num_successful_projects, snap, u>>

\* process_data: the loop reaches a row and calls process_row, which
\* computes folder_name, output_folder and report_name (lines 58-60);
\* output_dir / None raises TypeError
ProcessRow ==
    /\ pc = "loop"
    /\ row_index <= total_rows
    /\ template' = template
    /\ \E r \in RowSet, fault \in FaultChoices :
          LET folder_name == GetFolderName(r)
              h == [hist EXCEPT !.attempted = @ + 1,
                                !.ok_names = @ \ {folder_name},
                                !.faults = IF fault = "none" THEN @ ELSE @ + 1]
              c == [NoRow EXCEPT !.data_row = r, !.fault = fault]
          IN  IF folder_name = NoneVal
              THEN RowRaises(c, out, h, "TypeError")
              ELSE /\ cur' = [c EXCEPT
                                !.folder_name = folder_name,
                                !.report_name = GetReportName(r, folder_name),
                                !.before = out[folder_name]]
                   /\ pc' = "copy"
                   /\ hist' = h
                   /\ UNCHANGED <<template_path, total_rows, out, row_index,
                                  num_successful_projects, snap, u>>

\* the template directory after _copy_pbip_folder ran for the current row
CopiedSource ==
    CopyPbipFolder(out[cur.folder_name], template,
                   IF cur.fault \in {"rmtree_io", "copytree_io"} THEN cur.fault
                   ELSE "ok",
                   cur.folder_name = template_path).src

\* process_row, lines 63-64: _copy_pbip_folder
Copy ==
    /\ pc = "copy"
    /\ template' = CopiedSource
    /\ LET io == IF cur.fault \in {"rmtree_io", "copytree_io"} THEN cur.fault
                 ELSE "ok"
           r  == CopyPbipFolder(out[cur.folder_name], template, io,
                                cur.folder_name = template_path)
           o  == [out EXCEPT ![cur.folder_name] = r.dest]
           c  == [cur EXCEPT !.copied = r.ret, !.steps = Append(@, "copy")]
       IN  IF ProcessRowAfterCopy(r.ret) = "return_false"
           THEN RowReturns(c, o, hist, FALSE, FALSE)
           ELSE /\ out' = o
                /\ cur' = c
                /\ pc' = "rename"
                /\ UNCHANGED <<template_path, total_rows, row_index,
                               num_successful_projects, hist, snap, u>>

\* process_row, lines 67-81: _rename_internal_files_and_folders, then the
\* second derivation of the template name and the second replacement
Rename ==
    /\ pc = "rename"
    /\ template' = template
    /\ \E tn \in DeriveTemplateNames(out[cur.folder_name]) :
       \E r \in {RenameInternalFilesAndFolders(out[cur.folder_name],
                                               cur.report_name, tn, cur.fault)} :
          IF r.exc # "none"
          THEN RowRaises([cur EXCEPT !.renamed = r.status,
                                     !.steps = Append(@, "rename")],
                         [out EXCEPT ![cur.folder_name] = r.folder], hist, r.exc)
          ELSE \E tn2 \in DeriveTemplateNames(r.folder) :
               \E f \in {ReplaceReferencesAgain(r.folder, cur.report_name, tn2)} :
                  /\ out' = [out EXCEPT ![cur.folder_name] = f]
                  /\ cur' = [cur EXCEPT !.renamed = r.status,
                                        !.steps = Append(@, "rename")]
                  /\ pc' = "rewrite"
                  /\ UNCHANGED <<template_path, total_rows, row_index,
                                 num_successful_projects, hist, snap, u>>

\* process_row, lines 84-97: detect the format and rewrite the parameters
Rewrite ==
    /\ pc = "rewrite"
    /\ template' = template
    /\ \E m \in {ModelAt(out[cur.folder_name], cur.report_name)} :
       \E format \in {DetectModelFormat(m)} :
       \E r \in {IF format = "bim"
                 THEN UpdateParametersInModelBim(
                          m.bim, cur.data_row,
                          IF cur.fault = "bim_write_io" THEN "write_fail"
                          ELSE "ok")
                 ELSE IF format = "tmdl"
                 THEN UpdateParametersInTmdl(m.tmdl, cur.data_row, {})
                 ELSE [ret |-> "none"]} :
          LET m2 == IF format = "bim" THEN [m EXCEPT !.bim = r.file]
                    ELSE IF format = "tmdl" THEN [m EXCEPT !.tmdl = r.files]
                    ELSE m
              o == IF format \in {"bim", "tmdl"}
                   THEN [out EXCEPT ![cur.folder_name] =
                            SetModelAt(@, cur.report_name, m2)]
                   ELSE out
              c == [cur EXCEPT !.format = format, !.rewriter = r.ret,
                               !.steps = IF format \in {"bim", "tmdl"}
                                         THEN @ \o <<"detect", "rewrite">>
                                         ELSE Append(@, "detect")]
          IN  IF r.ret = "raise" THEN RowRaises(c, o, hist, "AttributeError")
              ELSE IF r.ret # "true" THEN RowReturns(c, o, hist, FALSE, FALSE)
              ELSE /\ out' = o
                   /\ cur' = c
                   /\ pc' = "cache"
                   /\ UNCHANGED <<template_path, total_rows, row_index,
                                  num_successful_projects, hist, snap, u>>

\* process_row, lines 100-103: _delete_cache_file, then return True
DeleteCache ==
    /\ pc = "cache"
    /\ template' = template
    /\ LET d == DeleteCacheFile(ModelAt(out[cur.folder_name], cur.report_name),
                                cur.fault)
           c == [cur EXCEPT !.cache_deleted = IF d.ret THEN "true" ELSE "false",
                            !.steps = Append(@, "cache")]
       IN  RowReturns(c, [out EXCEPT ![cur.folder_name] =
                             SetModelAt(@, cur.report_name, d.model)],
                      hist, ReturnAfterCache(d.ret) = "true", FALSE)

\* process_data, line 45: return num_successful_projects
Return ==
    /\ pc = "loop"
    /\ row_index > total_rows
    /\ pc' = "returned"
    /\ UNCHANGED <<template, template_path, total_rows, out, row_index,
                   num_successful_projects, cur, hist, snap, u>>

Next == ProcessRow \/ Copy \/ Rename \/ Rewrite \/ DeleteCache \/ Return

Spec == Init /\ [][Next]_vars

(***************************************************************************)
(* Claims about the batch (Spec)                                           *)
(***************************************************************************)
\* the folder f holds the three artifacts of a project named n
Generated(f, n) ==
    f.exists /\ f.pbip = <<n>> /\ f.report = <<n>> /\ f.model = <<n>>

\* output_dir / n is a folder of the output directory
InOutputDir(n) == n \in DOMAIN out /\ ~Escapes(n)

\* rows whose call of process_row has returned or raised
RowsProcessed ==
    IF pc \in {"copy", "rename", "rewrite", "cache"}
    THEN hist.attempted - 1 ELSE hist.attempted

\* C1: a row that fails in an anticipated way (the copy, the format, the
\* rewriter) never stops the batch.  The rows are attempted one after the
\* other in input order; when process_data returns, every row of the list
\* was attempted, the count is the number of rows minus the failed ones (2
\* for three rows of which only the second failed, at its copy), and every
\* folder of the output directory whose latest row succeeded is there with
\* its three artifacts.
C1_FaultIsolation ==
    /\ hist.attempted =
          IF pc \in {"loop", "returned"} THEN row_index - 1 ELSE row_index
    /\ pc = "returned" =>
          /\ hist.attempted = total_rows
          /\ num_successful_projects = total_rows - hist.failed
    /\ (pc = "returned" /\ total_rows = 3 /\ hist.failed = 1
            /\ hist.copy_failed_rows = {2}) => num_successful_projects = 2
    /\ \A n \in hist.ok_names : InOutputDir(n) => Generated(out[n], n)

\* three rows, only the second fails, at its copy; rows 1 and 3 went to two
\* folders and both are there
C1_Witness ==
    /\ pc = "returned" /\ total_rows = 3
    /\ hist.failed = 1 /\ hist.copy_failed_rows = {2}
    /\ num_successful_projects = 2
    /\ Cardinality(hist.ok_names) = 2
    /\ \A n \in hist.ok_names : InOutputDir(n) /\ Generated(out[n], n)

\* C2: the counter of process_data is the number of rows for which
\* process_row returned success; it lies between 0 and the number of rows
\* processed so far, it never decreases, and what process_data returns
\* leaves, taken from the number of rows, the number of rows that failed.
C2_SuccessCounter ==
    /\ [](/\ num_successful_projects = hist.returned_true
          /\ 0 <= num_successful_projects
          /\ num_successful_projects <= RowsProcessed
          /\ pc = "returned" =>
                /\ num_successful_projects <= total_rows
                /\ total_rows - num_successful_projects = hist.failed)
    /\ [][num_successful_projects' >= num_successful_projects]_vars

\* a batch that returned a count strictly between 0 and its length
C2_Witness ==
    /\ pc = "returned"
    /\ 0 < num_successful_projects
    /\ num_successful_projects < total_rows

\* C3: once a step of a row has raised an exception that is neither OSError
\* nor ValueError, the batch is aborted by that exception: the row is the
\* last one attempted, no count is returned, and the counter stays what the
\* rows before it made it.
C3_UnexpectedPropagates ==
    hist.unexpected =>
        /\ pc = "aborted"
        /\ cur.ret = "raise"
        /\ hist.attempted = row_index
        /\ num_successful_projects = hist.returned_true

\* the batch aborted at a row that has rows before it, one of them
\* generated, and rows after it
C3_Witness ==
    /\ hist.unexpected /\ pc = "aborted"
    /\ row_index > 1 /\ row_index < total_rows
    /\ num_successful_projects >= 1

\* C4: process_row returns success exactly when the copy succeeded, the
\* detected format is bim or tmdl, and the rewriter of that format reported
\* success; what the renaming helper and the cache deletion reported play
\* no part.
C4_RowResult ==
    cur.ret \in {"true", "false"} =>
        (cur.ret = "true" <=>
            /\ cur.copied
            /\ cur.format \in {"bim", "tmdl"}
            /\ cur.rewriter = "true")

\* a row that succeeded although the renaming helper reported a failure and
\* the cache file could not be deleted
C4_Witness ==
    /\ cur.ret = "true"
    /\ cur.renamed = "failed"
    /\ cur.cache_deleted = "false"

\* C5: after a row with a non-empty Report_Name V succeeded, the output
\* directory holds a folder V with V.pbip, V.Report and V.SemanticModel.
C5_FolderNamedAfterReport ==
    (/\ cur.ret = "true"
     /\ RowHas(cur.data_row, StrReportName)
     /\ RowGet(cur.data_row, StrReportName) # <<>>) =>
        /\ InOutputDir(RowGet(cur.data_row, StrReportName))
        /\ Generated(out[RowGet(cur.data_row, StrReportName)],
                     RowGet(cur.data_row, StrReportName))

\* C9: a run of process_row that no file operation disturbs gives, for the
\* same row and template, the same result and leaves the same folder, and
\* the same files beside it, as the first such run did.
C9_IdempotentOverwrite ==
    (cur.ret \in {"true", "false"} /\ cur.fault = "none" /\ cur.rerun) =>
        /\ snap[cur.data_row].ret = cur.ret
        /\ snap[cur.data_row].folder = out[cur.folder_name]

\* the target identifier the claims give a row
TargetIdentifier(row) ==
    IF RowHas(row, StrReportName) THEN RowGet(row, StrReportName)
    ELSE RowGet(row, StrName) \o <<"_">> \o RowGet(row, StrOwner)

\* C15: once process_row has computed its names for a row, the folder it
\* works on and the name it renames the artifacts to are both the row's
\* Report_Name when the row has that key, and Name, "_", Owner otherwise;
\* a row that succeeds under a name of the output directory leaves the
\* three artifacts under that name in the folder of that name.
C15_TargetIdentifier ==
    cur.folder_name # <<>> =>
        /\ cur.folder_name = TargetIdentifier(cur.data_row)
        /\ cur.report_name = TargetIdentifier(cur.data_row)
        /\ (cur.ret = "true" /\ InOutputDir(cur.folder_name)) =>
              Generated(out[TargetIdentifier(cur.data_row)],
                        TargetIdentifier(cur.data_row))

\* a row without Report_Name succeeded: its folder and artifacts carry its
\* Name, "_" and its Owner
C15_Witness ==
    /\ cur.ret = "true"
    /\ ~RowHas(cur.data_row, StrReportName)
    /\ cur.folder_name = RowGet(cur.data_row, StrName) \o <<"_">>
                            \o RowGet(cur.data_row, StrOwner)
    /\ Generated(out[cur.folder_name], cur.folder_name)

\* C19: after the rename step of a row ran to its end, the descriptor of the
\* project names, as the path of its report artifact, the report folder
\* <target>.Report that the folder holds.
C19_DescriptorPath ==
    (/\ cur.renamed = "ok"
     /\ InOutputDir(cur.folder_name)
     /\ out[cur.folder_name].pbipDoc.kind = "object") =>
        /\ out[cur.folder_name].report = <<cur.report_name>>
        /\ \A i \in 1..Len(out[cur.folder_name].pbipDoc.artifacts) :
               out[cur.folder_name].pbipDoc.artifacts[i].key = StrReportKey =>
                   out[cur.folder_name].pbipDoc.artifacts[i].path
                       = cur.report_name \o ExtReport

\* the steps of process_row in the order of the code
StepOrder == <<"copy", "rename", "detect", "rewrite", "cache">>

\* C18: the steps a row has performed are always a beginning of copy,
\* rename, detect, rewrite, delete cache.  A row whose copy failed performed
\* nothing after the copy; a row whose format is unknown performed neither
\* the rewrite nor the cache deletion; a row whose rewriter failed did not
\* delete the cache; a row that succeeded performed all five.
C18_StepOrder ==
    /\ Len(cur.steps) <= Len(StepOrder)
    /\ cur.steps = SubSeq(StepOrder, 1, Len(cur.steps))
    /\ (cur.steps # <<>> /\ ~cur.copied) => cur.steps = <<"copy">>
    /\ cur.format = "unknown" => cur.steps = <<"copy", "rename", "detect">>
    /\ cur.rewriter \in {"false", "raise"} =>
          cur.steps = <<"copy", "rename", "detect", "rewrite">>
    /\ cur.ret = "true" => cur.steps = StepOrder

\* a row stopped at its rewriter: the cache file of its model is still there
C18_Witness ==
    /\ cur.ret = "false"
    /\ cur.rewriter = "false"
    /\ cur.steps = <<"copy", "rename", "detect", "rewrite">>
    /\ ModelAt(out[cur.folder_name], cur.report_name).cache

\* C13: no step of process_data or process_row changes the template
\* directory: it is never deleted, renamed or rewritten.
C13_TemplateReadOnly == [][template' = template]_vars

\* C14: the rows of a batch go to folders of their own: while a row is
\* processed, no folder that an earlier row of the batch generated is
\* deleted or overwritten.
C14_OwnFolder ==
    [][\A r \in RowSet :
          snap[r].ret = "true" =>
              out'[GetFolderName(r)] = out[GetFolderName(r)]]_vars

\* C20: _update_parameters_in_tmdl returns success exactly when no read or
\* write of a .tmdl file failed in any of its per-parameter steps.
C20_TmdlResultOnIoError ==
    u.phase \in {"returned", "read"} => (u.ret = "true" <=> ~u.io_error)

(***************************************************************************)
(* SpecLocate: get_all_parameters on a model of table files                *)
(***************************************************************************)
\* a name as a TMDL file writes it: in single quotes unless it is a word
TmdlName(name) ==
    IF \A i \in 1..Len(name) : name[i] \in WordChars THEN name
    ELSE <<"'">> \o name \o <<"'">>

\* the files tried: parameter tables P and R, a parameter table T kept in
\* the file F.tmdl, a parameter table named 'A B', the table Sales that is
\* no parameter, and a parameter expression in a file of definition/ that
\* is no table file
LocateKinds ==
    {[dir |-> "tables", stem |-> <<"P">>, name |-> <<"P">>, param |-> TRUE,
      value |-> <<"k">>],
     [dir |-> "tables", stem |-> <<"R">>, name |-> <<"R">>, param |-> TRUE,
      value |-> <<"w">>],
     [dir |-> "tables", stem |-> <<"F">>, name |-> <<"T">>, param |-> TRUE,
      value |-> <<"w">>],
     [dir |-> "tables", stem |-> <<"A", " ", "B">>, name |-> <<"A", " ", "B">>,
      param |-> TRUE, value |-> <<"k">>],
     [dir |-> "tables", stem |-> StrSales, name |-> StrSales, param |-> FALSE,
      value |-> <<"k">>],
     [dir |-> "definition", stem |-> <<"X">>, name |-> <<"X">>, param |-> TRUE,
      value |-> <<"q">>]}

LocateFile(d) ==
    [dir |-> d.dir, stem |-> d.stem,
     content |-> IF d.param THEN ParamTableText(TmdlName(d.name), d.value)
                 ELSE PlainTableText(TmdlName(d.name), d.value)]

\* models of up to MaxTables files, no file twice
LocateModels ==
    {m \in UNION {[1..n -> LocateKinds] : n \in 0..MaxTables} :
        \A i, j \in 1..Len(m) : m[i] = m[j] => i = j}

LocateInit ==
    /\ BatchIdle
    /\ \E m \in LocateModels :
          u = [phase |-> "init", tables |-> m,
               files |-> <<ModelTmdl>> \o [i \in 1..Len(m) |-> LocateFile(m[i])],
               parameter_tables |-> <<>>, i |-> 1, all_parameters |-> <<>>]

\* parameter_tables = self.find_parameter_tables(semantic_model_path)
LocateFind ==
    /\ u.phase = "init"
    /\ u' = [u EXCEPT !.phase = "loop",
                      !.parameter_tables = FindParameterTables(u.files)]
    /\ UNCHANGED batchVars

\* one iteration of "for table_name in parameter_tables"
LocateExtract ==
    /\ u.phase = "loop"
    /\ u.i <= Len(u.parameter_tables)
    /\ u' = [u EXCEPT !.all_parameters =
                          GetAllParametersFrom(<<u.parameter_tables[u.i]>>, @, 1),
                      !.i = @ + 1]
    /\ UNCHANGED batchVars

\* return all_parameters
LocateReturn ==
    /\ u.phase = "loop"
    /\ u.i > Len(u.parameter_tables)
    /\ u' = [u EXCEPT !.phase = "returned"]
    /\ UNCHANGED batchVars

LocateNext == LocateFind \/ LocateExtract \/ LocateReturn

SpecLocate == LocateInit /\ [][LocateNext]_vars

\* C17: what get_all_parameters returns is exactly the pairs (declared table
\* name, value) of the files of definition/tables that hold a parameter
\* expression; the key is the declared name, not the file name.
C17_LocatorUnion ==
    u.phase = "returned" =>
        {u.all_parameters[i] : i \in 1..Len(u.all_parameters)} =
            {<<u.tables[i].name, u.tables[i].value>> :
                i \in {j \in 1..Len(u.tables) :
                          u.tables[j].dir = "tables" /\ u.tables[j].param}}

(***************************************************************************)
(* SpecDetect: detect_model_format on a model directory                    *)
(***************************************************************************)
\* files a definition folder may hold: model.tmdl, a table file, and a
\* file of definition/ that is not model.tmdl
DetectFiles ==
    {ModelTmdl,
     TableFile(<<"P">>, ParamTableText(<<"P">>, <<"k">>)),
     [dir |-> "definition", stem |-> <<"X">>, content |-> <<>>]}

\* the directory that does not exist, and directories with any model.bim,
\* up to MaxTables .tmdl files, with and without a cache file
DetectModels ==
    {NoModel} \cup
    {[exists |-> TRUE, bim |-> b, tmdl |-> t, cache |-> c] :
        b \in {BimAbsent, BimInvalid, BimList, TemplateBim},
        t \in {fs \in UNION {[1..n -> DetectFiles] : n \in 0..MaxTables} :
                  \A i, j \in 1..Len(fs) : fs[i] = fs[j] => i = j},
        c \in BOOLEAN}

DetectInit ==
    /\ BatchIdle
    /\ \E m \in DetectModels : u = [phase |-> "init", model |-> m, ret |-> "none"]

\* the call of detect_model_format: it reads, and returns a string
Detect ==
    /\ u.phase = "init"
    /\ u' = [u EXCEPT !.phase = "returned", !.ret = DetectModelFormat(u.model)]
    /\ UNCHANGED batchVars

SpecDetect == DetectInit /\ [][Detect]_vars

\* model.bim lies directly under the model directory
HasModelBim(m) == m.exists /\ m.bim # BimAbsent

\* the definition folder and definition/model.tmdl are there
HasModelTmdl(m) ==
    /\ m.exists
    /\ \E i \in 1..Len(m.tmdl) : m.tmdl[i] = ModelTmdl

StrStrip(s) ==
    LET keep == {i \in 1..Len(s) : s[i] \notin SpaceChars}
    IN  IF keep = {} THEN <<>>
        ELSE SubSeq(s, MinPos(keep), CHOOSE x \in keep : \A y \in keep : y <= x)

\* clean_column_name; None has no replace(): AttributeError
CleanColumnName(column_name) ==
    IF column_name = NoneVal THEN [ok |-> FALSE, value |-> <<>>]
    ELSE [ok |-> TRUE,
          value |-> StrStrip(Replace(Replace(column_name, <<"\\ufeff">>, <<>>),
                                     <<"ï", "»", "¿">>, <<>>))]

RECURSIVE DictZip(_, _, _, _)
\* dict(zip(fieldnames, row)), from the i-th pair on
DictZip(fieldnames, row, d, i) ==
    IF i > Len(fieldnames) \/ i > Len(row) THEN d
    ELSE DictZip(fieldnames, row, DictPut(d, fieldnames[i], row[i]), i + 1)

RECURSIVE DictRestval(_, _, _)
\* "for key in self.fieldnames[lr:]: d[key] = self.restval", restval None
DictRestval(fieldnames, d, i) ==
    IF i > Len(fieldnames) THEN d
    ELSE DictRestval(fieldnames, DictPut(d, fieldnames[i], NoneVal), i + 1)

\* csv.DictReader.__next__ on a line that is not blank: the fields beyond
\* the header go under the key None (restkey), the fields missing are None
DictReaderRow(fieldnames, row) ==
    LET d == DictZip(fieldnames, row, <<>>, 1)
    IN  IF Len(fieldnames) < Len(row)
        THEN DictPut(d, NoneVal, SubSeq(row, Len(fieldnames) + 1, Len(row)))
        ELSE DictRestval(fieldnames, d, Len(row) + 1)

RECURSIVE CleanedRow(_, _, _)
\* {clean_column_name(key): value for key, value in raw_row.items()}
CleanedRow(raw_row, d, i) ==
    IF i > Len(raw_row) THEN [ok |-> TRUE, row |-> d]
    ELSE LET key == CleanColumnName(raw_row[i][1])
         IN  IF ~key.ok THEN [ok |-> FALSE, row |-> <<>>]
             ELSE CleanedRow(raw_row, DictPut(d, key.value, raw_row[i][2]), i + 1)

\* list(cleaned_row.keys())
DictKeys(d) == [i \in 1..Len(d) |-> d[i][1]]

\* the reader skips the blank lines before the next line
SkipBlankLines(lines) ==
    LET full == {i \in 1..Len(lines) : lines[i] # <<>>}
    IN  IF full = {} THEN <<>> ELSE SubSeq(lines, MinPos(full), Len(lines))

\* header lines: two columns, and two columns whose names clean to one
CsvHeaders == {<<<<"A">>, <<"B">> >>, <<<<"A">>, <<" ", "A">> >>}

\* a line of n fields
CsvLine(n) == [j \in 1..n |-> <<"1">>]

CsvFiles ==
    UNION {[1..n -> {CsvLine(k) : k \in 0..MaxCsvFields}] : n \in 0..MaxCsvRows}

CsvInit ==
    /\ BatchIdle
    /\ \E h \in CsvHeaders, f \in CsvFiles, readable \in BOOLEAN :
          u = [phase |-> "init", fieldnames |-> h, file |-> f,
               readable |-> readable, lines |-> f, row_index |-> 1,
               expected_columns |-> NoneVal, parsed_rows |-> <<>>,
               ret |-> <<>>]

\* open(csv_path): OSError becomes RuntimeError (line 62-63)
CsvOpen ==
    /\ u.phase = "init"
    /\ u' = [u EXCEPT !.phase = IF u.readable THEN "loop" ELSE "RuntimeError"]
    /\ UNCHANGED batchVars

\* one iteration of "for row_index, raw_row in enumerate(reader, start=1)"
CsvRow ==
    /\ u.phase = "loop"
    /\ SkipBlankLines(u.lines) # <<>>
    /\ LET lines == SkipBlankLines(u.lines)
           cleaned == CleanedRow(DictReaderRow(u.fieldnames, lines[1]), <<>>, 1)
       IN  IF ~cleaned.ok
           THEN u' = [u EXCEPT !.phase = "AttributeError"]
           ELSE IF /\ u.expected_columns # NoneVal
                   /\ DictKeys(cleaned.row) # u.expected_columns
           THEN u' = [u EXCEPT !.phase = "RuntimeError"]
           ELSE u' = [u EXCEPT
                        !.expected_columns = IF @ = NoneVal
                                             THEN DictKeys(cleaned.row) ELSE @,
                        !.parsed_rows = Append(@, cleaned.row),
                        !.lines = Tail(lines),
                        !.row_index = @ + 1]
    /\ UNCHANGED batchVars

\* return parsed_rows
CsvReturn ==
    /\ u.phase = "loop"
    /\ SkipBlankLines(u.lines) = <<>>
    /\ u' = [u EXCEPT !.phase = "returned", !.ret = u.parsed_rows]
    /\ UNCHANGED batchVars

CsvNext == CsvOpen \/ CsvRow \/ CsvReturn

SpecCsv == CsvInit /\ [][CsvNext]_vars

\* the lines of the file that are not blank
CsvDataLines == SelectSeq(u.file, LAMBDA l : l # <<>>)

\* C11: when a data line of the file has another number of fields than the
\* first data line, the load ends with RuntimeError and hands no row to the
\* caller.
C11_SchemaInvariant ==
    (/\ u.phase \in {"returned", "RuntimeError", "AttributeError"}
     /\ u.readable
     /\ \E i \in 2..Len(CsvDataLines) :
            Len(CsvDataLines[i]) # Len(CsvDataLines[1])) =>
        /\ u.phase = "RuntimeError"
        /\ u.ret = <<>>

(***************************************************************************)
(* SpecUpdate: TMDLParser.update_parameters on a model of table files      *)
(***************************************************************************)
KwPartition == <<"p", "a", "r", "t", "i", "t", "i", "o", "n">>

NoPartition == [ok |-> FALSE, name |-> <<>>, group0 |-> <<>>]

RECURSIVE PartitionPatternFrom(_, _)
\* TMDLParser.partition_pattern.search(content), MULTILINE | DOTALL:
\* partition\s+(\w+)\s*=\s*m\s*\n(.*?)(?=\n\w|\n$|\Z), leftmost match at a
\* position >= i.  \s*\n ends at the last newline of the white space after
\* m; the lazy group ends at the first newline that a word character, a
\* newline or the end of the text follows, or at the end of the text.
PartitionPatternFrom(s, i) ==
    LET j == FindFrom(s, KwPartition, i)
    IN  IF j = 0 THEN NoPartition
        ELSE LET a == j + Len(KwPartition)
                 b == SkipSpaces(s, a)
                 c == SkipWord(s, b)
                 d == SkipSpaces(s, c)
                 e == SkipSpaces(s, d + 1)
                 f == SkipSpaces(s, e + 1)
                 nls == {k \in (e + 1)..(f - 1) : s[k] = NL}
                 g == 1 + CHOOSE k \in nls : \A l \in nls : l <= k
                 ends == {h \in g..(Len(s) + 1) :
                             \/ h = Len(s) + 1
                             \/ /\ s[h] = NL
                                /\ \/ IsWord(s, h + 1)
                                   \/ h = Len(s)
                                   \/ StartsAt(s, h + 1, <<NL>>)}
             IN  IF /\ b > a /\ c > b
                    /\ StartsAt(s, d, <<"=">>)
                    /\ StartsAt(s, e, <<"m">>)
                    /\ nls # {}
                 THEN [ok |-> TRUE, name |-> SubSeq(s, b, c - 1),
                       group0 |-> SubSeq(s, j, MinPos(ends) - 1)]
                 ELSE PartitionPatternFrom(s, j + 1)

PartitionPatternSearch(content) == PartitionPatternFrom(content, 1)

\* old_pattern.group(0): the text parameter_pattern.search matched
ParameterPatternGroup0(content) ==
    LET m == ParameterPatternSearch(content)
        j == MinPos({k \in 1..Len(content) : SourceAt(content, k, TRUE).ok})
    IN  SubSeq(content, j, m.end - 1)

\* f'source = "{new_value}" meta [IsParameterQuery=true, Type="Text",
\*   IsParameterQueryRequired=true]'
TmdlNewExpression(new_value) ==
    <<"s", "o", "u", "r", "c", "e", " ", "=", " ", Q>> \o new_value
        \o <<Q, " ", "m", "e", "t", "a", " ", "[", "I", "s", "P", "a", "r", "a", "m", "e", "t", "e", "r", "Q", "u", "e", "r", "y", "=", "t", "r", "u", "e", ",", " ", "T", "y", "p", "e", "=", Q, "T", "e", "x", "t", Q, ",", " ", "I", "s", "P", "a", "r", "a", "m", "e", "t", "e", "r", "Q", "u", "e", "r", "y", "R", "e", "q", "u", "i", "r", "e", "d", "=", "t", "r", "u", "e", "]">>

\* f'partition {partition_name} = m\n\tmode: import\n\t{new_expression}'
TmdlNewPartition(partition_name, new_expression) ==
    KwPartition \o <<" ">> \o partition_name
        \o <<" ", "=", " ", "m", NL, TAB, "m", "o", "d", "e", ":", " ", "i", "m", "p", "o", "r", "t", NL, TAB>> \o new_expression

\* TMDLParser.update_parameter_in_table on a file with this content (the
\* reads and the write succeed)
UpdateParameterInTable(content, param_name, new_value) ==
    LET table_name_match == TableNamePatternSearch(content)
        old_pattern == ParameterPatternSearch(content)
        new_expression == TmdlNewExpression(new_value)
        partition_match == PartitionPatternSearch(content)
    IN  IF ~table_name_match.ok \/ table_name_match.value # param_name
        THEN [ret |-> FALSE, content |-> content]
        ELSE IF ~old_pattern.ok THEN [ret |-> FALSE, content |-> content]
        ELSE [ret |-> TRUE,
              content |->
                 IF partition_match.ok
                 THEN Replace(content, partition_match.group0,
                              TmdlNewPartition(partition_match.name, new_expression))
                 ELSE Replace(content, ParameterPatternGroup0(content),
                              new_expression)]

\* the items tried: the names P (a parameter table), F (the file F.tmdl
\* declares the table T) and Sales (no parameter), the values z, the empty
\* text and a text with a quote
UpdateItems ==
    {<<n, v>> : n \in {<<"P">>, <<"F">>, StrSales},
                v \in {<<"z">>, <<>>, <<"z", Q>>}}

\* dicts of up to MaxUpdates items
UpdateDicts ==
    {d \in UNION {[1..n -> UpdateItems] : n \in 0..MaxUpdates} :
        \A i, j \in 1..Len(d) : d[i][1] = d[j][1] => i = j}

UpdateInit ==
    /\ BatchIdle
    /\ \E m \in LocateModels, d \in UpdateDicts :
       \E fs \in {<<ModelTmdl>> \o [i \in 1..Len(m) |-> LocateFile(m[i])]} :
          u = [phase |-> "loop", files0 |-> fs, files |-> fs, prev |-> fs,
               parameter_updates |-> d, k |-> 1, success |-> TRUE,
               results |-> <<>>]

\* the table file definition/tables/<param_name>.tmdl, 0 when it is missing
TableFileOf(files, param_name) ==
    LET at == {i \in 1..Len(files) :
                  files[i].dir = "tables" /\ files[i].stem = param_name}
    IN  IF at = {} THEN 0 ELSE MinPos(at)

\* one iteration of "for param_name, new_value in parameter_updates.items()"
UpdateIter ==
    /\ u.phase = "loop"
    /\ u.k <= Len(u.parameter_updates)
    /\ \E i \in {TableFileOf(u.files, u.parameter_updates[u.k][1])} :
          IF i = 0
          THEN u' = [u EXCEPT !.success = FALSE, !.prev = u.files,
                              !.results = Append(@, "missing"), !.k = @ + 1]
          ELSE \E r \in {UpdateParameterInTable(u.files[i].content,
                                                u.parameter_updates[u.k][1],
                                                u.parameter_updates[u.k][2])} :
                  u' = [u EXCEPT !.success = @ /\ r.ret, !.prev = u.files,
                                 !.files = [@ EXCEPT ![i].content = r.content],
                                 !.results = Append(@, IF r.ret THEN "true"
                                                       ELSE "false"),
                                 !.k = @ + 1]
    /\ UNCHANGED batchVars

\* return success
UpdateReturn ==
    /\ u.phase = "loop"
    /\ u.k > Len(u.parameter_updates)
    /\ u' = [u EXCEPT !.phase = "returned"]
    /\ UNCHANGED batchVars

UpdateNext == UpdateIter \/ UpdateReturn

SpecUpdate == UpdateInit /\ [][UpdateNext]_vars

\* C16: after an item (P, V) whose call of update_parameter_in_table
\* reported success, the file of P holds V, holds the old value in quotes no
\* more (when V is another value), and extract_parameters_from_table reads
\* V for P from it; a file that declares another table or holds no
\* parameter expression is left as it was and the call reports False;
\* update_parameters returns True only if every item had its file and was
\* updated.
C16_UpdateParameter ==
    /\ u.k > 1 =>
          LET P == u.parameter_updates[u.k - 1][1]
              V == u.parameter_updates[u.k - 1][2]
              i == TableFileOf(u.prev, P)
              old == ParameterPatternSearch(u.prev[i].content)
          IN  /\ u.results[u.k - 1] = "true" =>
                    /\ i # 0
                    /\ Contains(u.files[i].content, V)
                    /\ V # old.value =>
                          ~Contains(u.files[i].content, <<Q>> \o old.value \o <<Q>>)
                    /\ ExtractParametersFromTable(u.files[i].content) = <<<<P, V>>>>
              /\ (/\ i # 0
                  /\ \/ ~old.ok
                     \/ ~TableNamePatternSearch(u.prev[i].content).ok
                     \/ TableNamePatternSearch(u.prev[i].content).value # P) =>
                    /\ u.results[u.k - 1] = "false"
                    /\ u.files = u.prev
    /\ (u.phase = "returned" /\ u.success) =>
          \A k \in 1..Len(u.results) : u.results[k] = "true"

\* C21: whatever happens inside the rename step, process_row goes on to
\* the detection of the format: the step aborts neither the row nor the
\* batch.
C21_RenameBestEffort == [][pc = "rename" => pc' = "rewrite"]_vars

\* the row item leaves the model as it is: its key is not the declared
\* name of a parameter table of the model, or the parameter already has the
\* row's value
TmdlNoChangeCase(files, item) ==
    LET all == GetAllParameters(files)
    IN  \/ item[1] \notin {all[i][1] : i \in 1..Len(all)}
        \/ \E i \in 1..Len(all) : all[i] = item

\* C22: an iteration of the multi-file rewriter for a key that is no
\* declared parameter table, or whose parameter already has the row's value,
\* writes no .tmdl file; when every key of the row is such a key,
\* _update_parameters_in_tmdl returns success and the files are the ones it
\* found.
C22_TmdlNoChange ==
    /\ (u.phase = "loop" /\ u.k > 1 /\ TmdlNoChangeCase(u.prev, u.row[u.k - 1]))
            => u.files = u.prev
    /\ (/\ u.phase \in {"returned", "read"}
        /\ \A k \in 1..Len(u.row) : TmdlNoChangeCase(u.files0, u.row[k]))
            => (u.ret = "true" /\ u.files = u.files0)

\* C22 witness: the call returned for a row with a key that is no table
\* (Report_Name) and a key whose parameter already has the value (P = k)
C22_Witness ==
    /\ u.phase = "returned"
    /\ u.row = <<<<StrReportName, <<"g">> >>, <<<<"P">>, <<"k">> >>>>
    /\ GetAllParameters(u.files0)[1] = <<<<"P">>, <<"k">> >>
    /\ u.ret = "true"
    /\ u.files = u.files0

\* model.bim was read and parsed, and none of its expressions has a name
\* that is a key of the row
BimNothingToUpdate ==
    /\ u.phase \in {"written", "read"}
    /\ u.file.kind = "object"
    /\ u.io # "read_fail"
    /\ \A i \in 1..Len(u.file.exprs) :
          JsonUnescape(u.file.exprs[i].name) \notin RowKeys(u.row)

\* C23: when no expression of model.bim has a name that is a key of the
\* row, _update_parameters_in_model_bim returns success and model.bim is
\* not written: the file is what it was, also where a write would fail.
C23_BimNoOp == BimNothingToUpdate => (u.ret = "true" /\ u.file1 = u.file)

\* C23 witness: the call returned for a model.bim that has the expression
\* Owner and a row whose only key is Name, on a disk where a write fails
C23_Witness ==
    /\ BimNothingToUpdate
    /\ u.io = "write_fail"
    /\ Len(u.file.exprs) > 0
    /\ RowKeys(u.row) = {StrName}
    /\ u.ret = "true"

\* reading, parsing or writing model.bim failed in the call: the file is
\* missing or cannot be read, its content is no text or no JSON, or an
\* expression matched and the file cannot be written
BimReadParseWriteFailed ==
    \/ u.file.kind \in {"absent", "undecodable", "invalid"}
    \/ u.io = "read_fail"
    \/ /\ u.io = "write_fail"
       /\ u.file.kind = "object"
       /\ \E i \in 1..Len(u.file.exprs) :
             JsonUnescape(u.file.exprs[i].name) \in RowKeys(u.row)

\* C24: _update_parameters_in_model_bim returns failure exactly when
\* reading, parsing or writing model.bim failed, and a model.bim that could
\* not be read or parsed is left as it was.
C24_BimFailure ==
    u.phase \in {"written", "read"} =>
        /\ (u.ret = "false") <=> BimReadParseWriteFailed
        /\ BimReadParseWriteFailed => u.file1 = u.file

\* C25: after process_row returned success with a cache deletion that
\* raised no error, the semantic model folder of the generated project holds
\* no .pbi/cache.abf; and whatever _delete_cache_file reports, a missing
\* file or a deletion that failed, the row that reached it succeeds.
C25_CacheRemoved ==
    /\ []((cur.ret = "true" /\ cur.cache_deleted = "true") =>
             ~ModelAt(out[cur.folder_name], cur.report_name).cache)
    /\ [][pc = "cache" => cur'.ret = "true"]_vars

\* C25 witness: a row succeeded whose template has a cache file; the
\* deletion raised nothing and the generated model folder has no cache file
C25_Witness ==
    /\ cur.ret = "true"
    /\ cur.cache_deleted = "true"
    /\ template.cache
    /\ ModelAt(out[cur.folder_name], cur.report_name).exists
    /\ ~ModelAt(out[cur.folder_name], cur.report_name).cache

(***************************************************************************)
(* SpecRename: the rename step of process_row on a fresh copy of a         *)
(* template: _rename_internal_files_and_folders, then the second           *)
(* _replace_references_in_files                                            *)
(***************************************************************************)
\* names of the templates tried: one that occurs in no text of the files,
\* and two that are also keys of the descriptor's entries
RenTemplateNames == {TemplateName, StrReportKey, StrDatasetKey}

\* target identifiers tried: a plain one, one that is a key of the
\* descriptor's entries, one that holds the name of a template
RenReportNames == {<<"g">>, StrReportKey, TemplateName \o <<"g">>}

\* the artifacts lists tried: up to two entries, each a report or a dataset
RenArtifactLists(tn) ==
    SeqsUpTo({[key |-> StrReportKey, path |-> tn \o ExtReport],
              [key |-> StrDatasetKey, path |-> tn \o ExtSemanticModel]}, 2)

\* the .platform files tried: displayName the template's name or another
\* text, no displayName, and a file that is no JSON
RenPlatforms(tn) ==
    {[kind |-> "object", hasDisplayName |-> TRUE, displayName |-> tn, text |-> <<>>],
     [kind |-> "object", hasDisplayName |-> TRUE, displayName |-> <<"z">>, text |-> <<>>],
     [kind |-> "object", hasDisplayName |-> FALSE, displayName |-> <<>>, text |-> <<>>],
     [kind |-> "invalid", hasDisplayName |-> FALSE, displayName |-> <<>>,
      text |-> tn \o <<"x">> \o tn]}

\* the copy of a template named tn, as _copy_pbip_folder leaves it
RenCopy(tn, arts, platform) ==
    [exists |-> TRUE, pbip |-> <<tn>>, report |-> <<tn>>, model |-> <<tn>>,
     pbipDoc |-> [kind |-> "object", artifacts |-> arts],
     platform |-> platform, bim |-> BimAbsent, tmdl |-> <<>>,
     cache |-> TRUE, extra |-> {}, escaped |-> NoEscaped]

RenInit ==
    /\ BatchIdle
    /\ \E tn \in RenTemplateNames, rn \in RenReportNames :
       \E arts \in RenArtifactLists(tn), p \in RenPlatforms(tn) :
          u = [phase |-> "init", template_name |-> tn, report_name |-> rn,
               folder0 |-> RenCopy(tn, arts, p), folder |-> RenCopy(tn, arts, p),
               status |-> "none", exc |-> "none", fail_at |-> "none"]

\* process_row, line 66: self._rename_internal_files_and_folders(...)
RenHelper ==
    /\ u.phase = "init"
    /\ \E tn \in DeriveTemplateNames(u.folder) :
       \E fail_at \in {"none", "rename_pbip_io", "rename_report_io"} :
       \E r \in {RenameInternalFilesAndFolders(u.folder, u.report_name, tn, fail_at)} :
          u' = [u EXCEPT !.phase = "renamed", !.folder = r.folder,
                         !.status = r.status, !.exc = r.exc, !.fail_at = fail_at]
    /\ UNCHANGED batchVars

\* process_row, lines 70-81: the second loop over iterdir() and the second
\* _replace_references_in_files
RenAgain ==
    /\ u.phase = "renamed"
    /\ u.exc = "none"
    /\ \E tn \in DeriveTemplateNames(u.folder) :
          u' = [u EXCEPT !.phase = "replaced",
                         !.folder = ReplaceReferencesAgain(u.folder, u.report_name, tn)]
    /\ UNCHANGED batchVars

RenNext == RenHelper \/ RenAgain

SpecRename == RenInit /\ [][RenNext]_vars

\* the keys of the entries of an artifacts list, in the order of the list
ArtifactKinds(arts) == [i \in 1..Len(arts) |-> arts[i].key]

\* C26: after a rename step that reported no failure, the artifacts list of
\* the descriptor <Report_Name>.pbip holds exactly the report entries of the
\* template's list, as many as there and in their order, and no entry of
\* another kind.
C26_ReportArtifactsOnly ==
    (u.phase = "replaced" /\ u.status = "ok") =>
        LET doc == PbipAt(u.folder, u.report_name)
        IN  /\ doc.kind = "object"
            /\ ArtifactKinds(doc.artifacts) =
                  SelectSeq(ArtifactKinds(u.folder0.pbipDoc.artifacts),
                            LAMBDA k : k = StrReportKey)

\* C27: after the rename step, a .platform file of the copy that parsed to
\* an object with metadata.displayName has the target identifier as its
\* displayName, whatever the value was; a .platform file that is no JSON
\* has the template's name replaced by the target identifier throughout
\* its text (when no rename of the step raised).
C27_PlatformDisplayName ==
    u.phase = "replaced" =>
        /\ (u.folder0.platform.kind = "object" /\ u.folder0.platform.hasDisplayName)
              => /\ u.folder.platform.kind = "object"
                 /\ u.folder.platform.hasDisplayName
                 /\ JsonUnescape(u.folder.platform.displayName) = u.report_name
        /\ (u.folder0.platform.kind = "invalid" /\ u.status = "ok")
              => /\ u.folder.platform.kind = "invalid"
                 /\ u.folder.platform.text =
                       Replace(u.folder0.platform.text, u.template_name,
                               u.report_name)

\* C27 witness: a displayName that did not hold the template's name was
\* overwritten with the target identifier
C27_Witness ==
    /\ u.phase = "replaced"
    /\ u.folder0.platform.kind = "object"
    /\ u.folder0.platform.displayName = <<"z">>
    /\ u.template_name = TemplateName
    /\ u.report_name = <<"g">>
    /\ u.folder.platform.displayName = <<"g">>

\* C28: whatever the row, process_row deletes and writes only in a folder
\* that is a child of the output directory: a path that leads out of the
\* output directory is never created, deleted or written.
C28_WritesConfined ==
    [][\A n \in DOMAIN out : Escapes(n) => out'[n] = out[n]]_vars

\* C29: the multi-file rewriter changes values, never names: the parameter
\* names the multi-file locator lists after _update_parameters_in_tmdl
\* returned are the names it lists for the model before the call.
C29_ParameterIdentity ==
    u.phase = "read" =>
        {u.readback[i][1] : i \in 1..Len(u.readback)} = DeclaredParameters(u.files0)

\* a cache.abf is in the folder or in the model directory the row put
\* beside it
CachePresent(f) ==
    f.cache \/ (f.escaped.model # <<>> /\ f.escaped.model[1].cache)

\* process_row returned failure after its copy succeeded
FailedAfterCopy ==
    /\ cur.ret = "false"
    /\ cur.copied
    /\ cur.format = "unknown" \/ cur.rewriter = "false"

\* C30: a row that fails after its copy succeeded (unknown format, rewriter
\* failure) is not rolled back: its folder stays in the output directory,
\* with the cache file of the template if it had one, and the row is not
\* counted.
C30_NoRollback ==
    /\ [](FailedAfterCopy =>
             /\ out[cur.folder_name].exists
             /\ template.cache => CachePresent(out[cur.folder_name])
             /\ cur.folder_name \notin hist.ok_names)
    /\ [][(pc = "rewrite" /\ cur'.ret = "false")
            => num_successful_projects' = num_successful_projects]_vars

\* C30 witness: a row of a template with no model format failed at the
\* detection; its folder is there, renamed, with the cache file
C30_Witness ==
    /\ FailedAfterCopy
    /\ cur.format = "unknown"
    /\ cur.renamed = "ok"
    /\ Generated(out[cur.folder_name], cur.folder_name)
    /\ out[cur.folder_name].cache
    /\ cur.folder_name \notin hist.ok_names
    /\ num_successful_projects = 0

====
